---- MODULE Spec2Model ----
(***************************************************************************)
(* Orchestration and learning control plane of strands_agents/service:     *)
(* the step orchestrator (orchestrator.py), the quality checker            *)
(* (agents/checker_agent.py), the context curator (agents/ace_agent.py)    *)
(* and the control loop (app.py run_agents, agentcore_runtime invoke).     *)
(***************************************************************************)
EXTENDS Integers, Sequences, FiniteSets, TLC

VARIABLES
    \* ---- orchestrator (orchestrator.py) ----
    o_agents,     \* self.agents: the registered steps, in list order
    o_input,      \* the context value the caller builds for every execute()
    o_context,    \* the caller's context object while execute() runs
    o_alias,      \* result["errors"] is the caller's own errors list object
    o_run,        \* number of execute() calls completed (one per strategy)
    o_pc,         \* position inside the running execute()
    o_i,          \* index of the agent the for-loop is at
    o_result,     \* the local `result` / `merged` dict
    o_parallel,   \* execute_hybrid's parallel_agents (indices into o_agents)
    o_tasks,      \* tasks handed to asyncio.gather: index -> "none"|"pending"|"done"
    o_calls,      \* history: every visit of a step [strategy, agent, input, outcome]
    o_out,        \* the context returned by execute(), per strategy
    \* ---- quality checker (agents/checker_agent.py) ----
    k_rules,      \* CheckerAgent.rules
    k_response,   \* the response of the last check() call
    k_intermediate, \* the intermediate info of the last check() call
    k_verdict,    \* the ValidationResult the last check() call returned
    k_first,      \* history: an earlier check() call, with the rules it ran under
    \* ---- context curator (agents/ace_agent.py) ----
    c_max,        \* ACEAgent.max_context_items
    c_store,      \* ACEAgent.context_store (in memory)
    c_disk,       \* the 'items' of ace_context_store.json
    c_clock,      \* items created so far (stands for datetime.now())
    c_prev,       \* history: context_store when the last curator call began
    c_deltas,     \* history: what the last curator call returned / appended
    c_last,       \* history: the last curator call
    c_instructions, \* history: the text the last call returned, when it was
                    \* get_context_instructions()
    c_optimize,     \* history: what the last optimize() call returned, and whether
                    \* its write of the store file succeeded
    c_insights,     \* history: the insights the last call was given, when it was
                    \* curate()
    c_file,         \* the text of ace_context_store.json as the processes that
                    \* share it have written it
    c_procs,        \* the curator of each process that shares the file
    c_writes,       \* history: the processes whose write of the file ended, in order
    \* ---- communication bus (agent_bus.py) ----
    b_max_history,  \* AgentCommunicationBus.max_history
    b_history,      \* AgentCommunicationBus.message_history
    b_subscribers,  \* AgentCommunicationBus.subscribers: topic -> list of callbacks
    b_published,    \* history: every message published since the last clear_history
    b_pub,          \* the publish() call in flight, or the last one that ended
    \* ---- monitor (monitoring.py) ----
    m_max_metrics,  \* AgentMonitor.max_metrics
    m_metrics,      \* AgentMonitor.metrics: agent name -> list of records
    m_errors,       \* AgentMonitor.errors
    m_recorded,     \* history: every record_execution call made by a direct caller
    m_raised,       \* history: every record_error call made by a direct caller
    m_call,         \* history: the last direct call of the monitor and what it returned
    \* ---- state store (state_manager.py) ----
    s_files,        \* agent_states/*.json: file name -> content
    s_prev,         \* history: the files when the last state-store call began
    s_last,         \* history: the last state-store call and what it returned
    \* ---- control loop (app.py run_agents, strands_agent_entrypoint.py invoke) ----
    r_variant,    \* the entry point this process serves: run_agents or invoke
    run,          \* the active call: its position and its local variables
    r_runs,       \* calls started so far
    r_outcome,    \* what the caller of the last finished call received
    r_trace,      \* history: the calls the active run made, in order
    r_attempts,   \* history: content, intermediate and verdict of each graded attempt
    r_mark        \* history: len(errors) of the monitor when the run started

orchVars == <<o_agents, o_input, o_context, o_alias, o_run, o_pc, o_i, o_result,
              o_parallel, o_tasks, o_calls, o_out>>

chkVars == <<k_rules, k_response, k_intermediate, k_verdict, k_first>>

\* the store file as several processes see it
shareVars == <<c_file, c_procs, c_writes>>

curVars == <<c_max, c_store, c_disk, c_clock, c_prev, c_deltas, c_last, c_instructions,
             c_optimize, c_insights, shareVars>>

busVars == <<b_max_history, b_history>>

\* the histories of direct monitor calls
monHist == <<m_recorded, m_raised, m_call>>

monVars == <<m_max_metrics, m_metrics, m_errors, monHist>>

loopVars == <<r_variant, run, r_runs, r_outcome, r_trace, r_attempts, r_mark>>

\* the bus's subscriber side and the histories of direct bus / state-store calls
svcVars == <<b_subscribers, b_published, b_pub, s_prev, s_last>>

runVars == <<busVars, monVars, s_files, svcVars, loopVars>>

vars == <<orchVars, chkVars, curVars, runVars>>

\* what the actions of one component leave alone
nonOrchVars == <<chkVars, curVars, runVars>>

nonChkVars == <<orchVars, curVars, runVars>>

nonCurVars == <<orchVars, chkVars, runVars>>

(***************************************************************************)
(* Bounds                                                                  *)
(***************************************************************************)
MaxSteps == 3

\* largest max_context_items a curator is constructed with
MaxCap == 3

\* largest number of items a curator creates in one behaviour
MaxItems == 3

\* largest number of run_agents / invoke calls in one behaviour
MaxRuns == 1

(***************************************************************************)
(* Orchestrator: data                                                      *)
(***************************************************************************)
\* OrchestrationStrategy, in the order the four execute() calls are made
Strategies == <<"sequential", "parallel", "conditional", "hybrid">>

\* A missing key of a context dict
Missing == -1

\* The step bodies that are registered: "inc" returns {a: ctx.get(a, 0) + 1},
\* "mark" returns {a: 0, b: 1}, "fail" raises.
Behaviours == {"inc", "mark", "fail"}

\* and a step body that writes into the dict it is given and returns that
\* dict: "write" does ctx["b"] = 1; return ctx
SharingBehaviours == {"inc", "write", "fail"}

SharingInfos == [beh : SharingBehaviours, condition : {"default", "def_has_b"}]

\* add_agent's condition argument: None (the default lambda), an explicit
\* lambda, or a named function; the explicit ones test "b" in ctx.
Conditions == {"default", "lambda_has_b", "def_has_b"}

AgentInfos == [beh : Behaviours, condition : Conditions]

SeqsUpTo(S, n) == UNION {[1..k -> S] : k \in 0..n}

\* The contexts a caller passes: no data keys yet, with or without an errors
\* list left by an earlier stage (entry 0 names that earlier stage).
InputContexts ==
    { [a |-> Missing, b |-> Missing, has_errors |-> FALSE, errors |-> <<>>],
      [a |-> Missing, b |-> Missing, has_errors |-> TRUE,  errors |-> <<0>>] }

EmptyDict == [a |-> Missing, b |-> Missing, has_errors |-> FALSE, errors |-> <<>>]

NoOut == [a |-> Missing - 1, b |-> Missing - 1, has_errors |-> FALSE, errors |-> <<>>]

(***************************************************************************)
(* Orchestrator: pure helpers                                              *)
(***************************************************************************)
\* Whether calling the step raises on this context
Raises(info, ctx) == info.beh = "fail"

\* The dict a step returns (only the keys it contributes)
AgentResult(info, ctx) ==
    CASE info.beh = "inc"  -> [EmptyDict EXCEPT !.a = (IF ctx.a = Missing THEN 0 ELSE ctx.a) + 1]
      [] info.beh = "mark" -> [EmptyDict EXCEPT !.a = 0, !.b = 1]
      [] info.beh = "write" -> [ctx EXCEPT !.b = 1]
      [] OTHER             -> EmptyDict

\* The dict a step was given, after the step ran: the same object, with
\* what the step wrote into it
Mutated(info, ctx) ==
    IF info.beh = "write" THEN [ctx EXCEPT !.b = 1] ELSE ctx

\* a conditional loop that does not consult the condition
ConditionIgnored(info, ctx) == TRUE

\* agent_info["condition"](result)
ConditionHolds(info, ctx) ==
    IF info.condition = "default" THEN TRUE ELSE ctx.b # Missing

\* dict.update(other)
DictUpdate(d, other) ==
    [ a          |-> IF other.a # Missing THEN other.a ELSE d.a,
      b          |-> IF other.b # Missing THEN other.b ELSE d.b,
      has_errors |-> d.has_errors \/ other.has_errors,
      errors     |-> IF other.has_errors THEN other.errors ELSE d.errors ]

\* result["errors"] = result.get("errors", []); result["errors"].append({...})
AppendError(d, name) ==
    [d EXCEPT !.has_errors = TRUE, !.errors = Append(d.errors, name)]

\* _has_dependencies: condition.__name__ != "<lambda>"
HasDependencies(info) == info.condition = "def_has_b"

\* the merge loop over zip(agent_names, results), from position k of idxs
RECURSIVE MergeResults(_, _, _, _)
MergeResults(merged, idxs, k, ctx) ==
    IF k > Len(idxs) THEN merged
    ELSE LET i == idxs[k]
             next == IF Raises(o_agents[i], ctx)
                     THEN AppendError(merged, i)
                     ELSE DictUpdate(merged, AgentResult(o_agents[i], ctx))
         IN MergeResults(next, idxs, k + 1, ctx)

Indices(n) == [k \in 1..n |-> k]

NoTasks == [k \in 1..(MaxSteps + 1) |-> "none"]

Strategy == IF o_run < Len(Strategies) THEN Strategies[o_run + 1] ELSE "none"

\* history record of one visit of agent i: invoked ("ok" or "raised") or skipped
Call(i, ctx) == [strategy |-> Strategy, agent |-> i, input |-> ctx,
                 outcome |-> IF Raises(o_agents[i], ctx) THEN "raised" ELSE "ok"]

Skip(i, ctx) == [strategy |-> Strategy, agent |-> i, input |-> ctx, outcome |-> "skipped"]

\* the for-loops go on to the next agent whether or not the step raised
NextIndexAbort(i, raised) == IF raised THEN Len(o_agents) + 1 ELSE i + 1

NextIndex(i, raised) == i + 1

\* the caller's context after an append to the list `result` holds
CallerAfterAppend(name) ==
    IF o_alias THEN [o_context EXCEPT !.errors = Append(@, name)] ELSE o_context

(***************************************************************************)
(* Orchestrator: execute()                                                 *)
(***************************************************************************)
\* an orchestrator after its add_agent calls, about to be given `input`
Registered(agents, input) ==
    /\ o_agents = agents
    /\ o_input = input
    /\ o_context = o_input
    /\ o_alias = FALSE
    /\ o_run = 0
    /\ o_pc = "idle"
    /\ o_i = 1
    /\ o_result = EmptyDict
    /\ o_parallel = <<>>
    /\ o_tasks = NoTasks
    /\ o_calls = {}
    /\ o_out = [s \in {Strategies[k] : k \in 1..Len(Strategies)} |-> NoOut]

OrchInit ==
    \E agents \in SeqsUpTo(AgentInfos, MaxSteps), input \in InputContexts :
        Registered(agents, input)

\* an orchestrator with no agents registered and no execute() call made
OrchIdle ==
    /\ o_agents = <<>>
    /\ o_input = EmptyDict
    /\ o_context = EmptyDict
    /\ o_alias = FALSE
    /\ o_run = Len(Strategies)
    /\ o_pc = "idle"
    /\ o_i = 1
    /\ o_result = EmptyDict
    /\ o_parallel = <<>>
    /\ o_tasks = NoTasks
    /\ o_calls = {}
    /\ o_out = [s \in {Strategies[k] : k \in 1..Len(Strategies)} |-> NoOut]

\* execute(): dispatch on self.strategy; sequential, conditional and hybrid
\* start with result = context.copy()
ExecuteStart ==
    /\ o_pc = "idle"
    /\ Strategy \in {"sequential", "conditional", "hybrid"}
    /\ o_context' = o_input
    /\ o_result' = o_input
    /\ o_alias' = o_input.has_errors
    /\ o_i' = 1
    /\ o_parallel' = <<>>
    /\ o_pc' = Strategy
    /\ UNCHANGED <<o_agents, o_input, o_run, o_tasks, o_calls, o_out>>
    /\ UNCHANGED nonOrchVars

\* the return statement of the running execute()
Return(result) ==
    /\ o_out' = [o_out EXCEPT ![Strategy] = result]
    /\ o_run' = o_run + 1
    /\ o_pc' = "idle"

\* execute_sequential: one iteration of the for-loop
ExecuteSequentialStep ==
    /\ o_pc = "sequential"
    /\ o_i <= Len(o_agents)
    /\ LET info == o_agents[o_i] IN
         /\ o_calls' = o_calls \cup {Call(o_i, o_result)}
         /\ IF Raises(info, o_result)
            THEN /\ o_result' = AppendError(o_result, o_i)
                 /\ o_context' = CallerAfterAppend(o_i)
            ELSE /\ o_result' = DictUpdate(o_result, AgentResult(info, o_result))
                 /\ o_context' = o_context
         /\ o_i' = NextIndex(o_i, Raises(info, o_result))
    /\ UNCHANGED <<o_agents, o_input, o_alias, o_run, o_pc, o_parallel, o_tasks, o_out>>
    /\ UNCHANGED nonOrchVars

ExecuteSequentialReturn ==
    /\ o_pc = "sequential"
    /\ o_i > Len(o_agents)
    /\ Return(o_result)
    /\ UNCHANGED <<o_agents, o_input, o_context, o_alias, o_i, o_result, o_parallel,
                   o_tasks, o_calls>>
    /\ UNCHANGED nonOrchVars

\* execute_conditional: one iteration of the for-loop
ExecuteConditionalStep ==
    /\ o_pc = "conditional"
    /\ o_i <= Len(o_agents)
    /\ LET info == o_agents[o_i] IN
         IF ConditionHolds(info, o_result)
         THEN /\ o_calls' = o_calls \cup {Call(o_i, o_result)}
              /\ IF Raises(info, o_result)
                 THEN /\ o_result' = AppendError(o_result, o_i)
                      /\ o_context' = CallerAfterAppend(o_i)
                 ELSE /\ o_result' = DictUpdate(o_result, AgentResult(info, o_result))
                      /\ o_context' = o_context
         ELSE /\ o_calls' = o_calls \cup {Skip(o_i, o_result)}
              /\ UNCHANGED <<o_result, o_context>>
    /\ o_i' = NextIndex(o_i, ConditionHolds(o_agents[o_i], o_result)
                              /\ Raises(o_agents[o_i], o_result))
    /\ UNCHANGED <<o_agents, o_input, o_alias, o_run, o_pc, o_parallel, o_tasks, o_out>>
    /\ UNCHANGED nonOrchVars

ExecuteConditionalReturn ==
    /\ o_pc = "conditional"
    /\ o_i > Len(o_agents)
    /\ Return(o_result)
    /\ UNCHANGED <<o_agents, o_input, o_context, o_alias, o_i, o_result, o_parallel,
                   o_tasks, o_calls>>
    /\ UNCHANGED nonOrchVars

\* execute_parallel: build the tasks on the caller's context and gather them
ExecuteParallelStart ==
    /\ o_pc = "idle"
    /\ Strategy = "parallel"
    /\ o_context' = o_input
    /\ o_result' = o_input
    /\ o_alias' = o_input.has_errors
    /\ o_parallel' = Indices(Len(o_agents))
    /\ o_tasks' = [k \in DOMAIN NoTasks |-> IF k <= Len(o_agents) THEN "pending" ELSE "none"]
    /\ o_pc' = "parallel_gather"
    /\ UNCHANGED <<o_agents, o_input, o_run, o_i, o_calls, o_out>>
    /\ UNCHANGED nonOrchVars

\* one gathered task runs to completion (or to its exception)
TaskFinish(i) ==
    /\ o_pc \in {"parallel_gather", "hybrid_gather"}
    /\ o_tasks[i] = "pending"
    /\ o_tasks' = [o_tasks EXCEPT ![i] = "done"]
    /\ o_calls' = o_calls \cup
          {Call(i, IF o_pc = "parallel_gather" THEN o_context ELSE o_result)}
    /\ IF o_pc = "parallel_gather"
       THEN /\ o_context' = Mutated(o_agents[i], o_context)
            /\ UNCHANGED o_result
       ELSE /\ o_result' = Mutated(o_agents[i], o_result)
            /\ UNCHANGED o_context
    /\ UNCHANGED <<o_agents, o_input, o_alias, o_run, o_pc, o_i, o_parallel, o_out>>
    /\ UNCHANGED nonOrchVars

AllGathered == \A k \in DOMAIN o_tasks : o_tasks[k] # "pending"

\* after gather: merged = context.copy(), merge in list order, return merged
ExecuteParallelMerge ==
    /\ o_pc = "parallel_gather"
    /\ AllGathered
    /\ LET merged == MergeResults(o_context, o_parallel, 1, o_context) IN
         /\ Return(merged)
         /\ o_result' = merged
         /\ o_context' = IF o_alias THEN [o_context EXCEPT !.errors = merged.errors]
                         ELSE o_context
    /\ o_tasks' = NoTasks
    /\ o_parallel' = <<>>
    /\ UNCHANGED <<o_agents, o_input, o_alias, o_i, o_calls>>
    /\ UNCHANGED nonOrchVars

\* _run_parallel_batch up to its gather
RunParallelBatchStart ==
    /\ o_tasks' = [k \in DOMAIN NoTasks |->
                     IF \E j \in 1..Len(o_parallel) : o_parallel[j] = k
                     THEN "pending" ELSE "none"]
    /\ o_pc' = "hybrid_gather"

\* execute_hybrid: one iteration of the for-loop, up to its first await
ExecuteHybridStep ==
    /\ o_pc = "hybrid"
    /\ o_i <= Len(o_agents)
    /\ IF HasDependencies(o_agents[o_i])
       THEN IF o_parallel # <<>>
            THEN /\ RunParallelBatchStart
                 /\ UNCHANGED <<o_parallel, o_i>>
            ELSE /\ o_pc' = "hybrid_run"
                 /\ UNCHANGED <<o_parallel, o_i, o_tasks>>
       ELSE /\ o_parallel' = Append(o_parallel, o_i)
            /\ o_i' = o_i + 1
            /\ UNCHANGED <<o_pc, o_tasks>>
    /\ UNCHANGED <<o_agents, o_input, o_context, o_alias, o_run, o_result, o_calls, o_out>>
    /\ UNCHANGED nonOrchVars

\* execute_hybrid: the batch left after the loop
ExecuteHybridTail ==
    /\ o_pc = "hybrid"
    /\ o_i > Len(o_agents)
    /\ o_parallel # <<>>
    /\ RunParallelBatchStart
    /\ UNCHANGED <<o_agents, o_input, o_context, o_alias, o_run, o_i, o_result,
                   o_parallel, o_calls, o_out>>
    /\ UNCHANGED nonOrchVars

\* _run_parallel_batch after its gather (merged = {}), then
\* result.update(parallel_result); parallel_agents = []
RunParallelBatchMerge ==
    /\ o_pc = "hybrid_gather"
    /\ AllGathered
    /\ LET merged == MergeResults(EmptyDict, o_parallel, 1, o_result) IN
         /\ o_result' = DictUpdate(o_result, merged)
         /\ o_alias' = (o_alias /\ ~merged.has_errors)
    /\ o_tasks' = NoTasks
    /\ o_parallel' = <<>>
    /\ o_pc' = IF o_i <= Len(o_agents) THEN "hybrid_run" ELSE "hybrid"
    /\ UNCHANGED <<o_agents, o_input, o_context, o_run, o_i, o_calls, o_out>>
    /\ UNCHANGED nonOrchVars

\* execute_hybrid: "Run this agent sequentially"
ExecuteHybridRun ==
    /\ o_pc = "hybrid_run"
    /\ LET info == o_agents[o_i] IN
         /\ o_calls' = o_calls \cup {Call(o_i, o_result)}
         /\ IF Raises(info, o_result)
            THEN /\ o_result' = AppendError(o_result, o_i)
                 /\ o_context' = CallerAfterAppend(o_i)
            ELSE /\ o_result' = DictUpdate(o_result, AgentResult(info, o_result))
                 /\ o_context' = o_context
         /\ o_i' = NextIndex(o_i, Raises(info, o_result))
    /\ o_pc' = "hybrid"
    /\ UNCHANGED <<o_agents, o_input, o_alias, o_run, o_parallel, o_tasks, o_out>>
    /\ UNCHANGED nonOrchVars

ExecuteHybridReturn ==
    /\ o_pc = "hybrid"
    /\ o_i > Len(o_agents)
    /\ o_parallel = <<>>
    /\ Return(o_result)
    /\ UNCHANGED <<o_agents, o_input, o_context, o_alias, o_i, o_result, o_parallel,
                   o_tasks, o_calls>>
    /\ UNCHANGED nonOrchVars

(***************************************************************************)
(* Orchestrator: properties                                                *)
(***************************************************************************)
StrategySet == {Strategies[k] : k \in 1..Len(Strategies)}

Done(s) == o_out[s] # NoOut

\* the steps whose invocation raised during the run under strategy s
Failed(s) == {c.agent : c \in {d \in o_calls : d.strategy = s /\ d.outcome = "raised"}}

Visits(s, i) == {c \in o_calls : c.strategy = s /\ c.agent = i}

Count(seq, x) == Cardinality({k \in 1..Len(seq) : seq[k] = x})

\* C8: under each of the four strategies execute() returns a context whose
\* errors list holds exactly one entry for every step that failed in the run
\* (and none for a step that did not fail): no entry is lost or overwritten.
C8_UniformErrorSurfacing ==
    \A s \in StrategySet :
        Done(s) =>
            \A i \in 1..Len(o_agents) :
                Count(o_out[s].errors, i) = (IF i \in Failed(s) THEN 1 ELSE 0)

AllDefault == \A k \in 1..Len(o_agents) : o_agents[k].condition = "default"

AllNonDefault == \A k \in 1..Len(o_agents) : o_agents[k].condition # "default"

\* equal contexts, the order of the errors entries aside
SameUpToErrorOrder(x, y) ==
    /\ x.a = y.a /\ x.b = y.b /\ x.has_errors = y.has_errors
    /\ Len(x.errors) = Len(y.errors)
    /\ \A i \in 0..(MaxSteps + 1) : Count(x.errors, i) = Count(y.errors, i)

\* C38: under each of the four strategies, with steps that only return
\* their contribution, the context passed to execute(), the errors list it
\* already holds included, is the same after execute() returns as before.
C38_InputContextUnchanged ==
    (o_pc = "idle" /\ o_run >= 1) => o_context = o_input

\* C10: Hybrid returns the same context as Parallel when every step has the
\* default predicate, and the same context as Sequential (order of errors
\* entries aside) when every step has a non-default predicate.
C10_HybridEquivalence ==
    (Done("hybrid") /\ Len(o_agents) > 0) =>
        /\ AllDefault => o_out["hybrid"] = o_out["parallel"]
        /\ AllNonDefault => SameUpToErrorOrder(o_out["hybrid"], o_out["sequential"])

\* C25: under Parallel every step is invoked with the initial context, so
\* that no step sees what another step returned or wrote; execute() returns
\* after every step has completed or failed; and the returned context is the
\* initial context updated in list order with the successful steps' outputs
\* (a failed step adding its errors entry), the later step winning a key.
C25_ParallelIsolation ==
    /\ \A c \in o_calls : c.strategy = "parallel" => c.input = o_input
    /\ Done("parallel") =>
          /\ \A i \in 1..Len(o_agents) : Visits("parallel", i) # {}
          /\ o_out["parallel"] =
                 MergeResults(o_input, Indices(Len(o_agents)), 1, o_input)

\* what one iteration of execute_sequential makes of the context
SequentialIteration(i, ctx) ==
    IF o_agents[i].beh = "fail" THEN AppendError(ctx, i)
    ELSE DictUpdate(ctx, AgentResult(o_agents[i], ctx))

\* the predicate a step was registered with is false on ctx
PredicateFalse(i, ctx) == o_agents[i].condition # "default" /\ ctx.b = Missing

\* the context after the first k steps, when a step whose predicate is
\* false on the context so far leaves it as it is and every other step
\* acts as under Sequential
RECURSIVE AfterConditional(_)
AfterConditional(k) ==
    IF k = 0 THEN o_input
    ELSE LET before == AfterConditional(k - 1)
         IN IF PredicateFalse(k, before) THEN before ELSE SequentialIteration(k, before)

\* C26: under Conditional each step's predicate is evaluated on the context
\* as updated by the earlier executed steps; a step whose predicate is false
\* is not invoked and adds neither keys nor an errors entry; a step whose
\* predicate is true is invoked on that context and handled as under
\* Sequential.
C26_ConditionalSkips ==
    /\ \A c \in o_calls :
          c.strategy = "conditional" =>
              /\ c.input = AfterConditional(c.agent - 1)
              /\ (c.outcome = "skipped") = PredicateFalse(c.agent, c.input)
    /\ Done("conditional") =>
          /\ \A i \in 1..Len(o_agents) : Cardinality(Visits("conditional", i)) = 1
          /\ o_out["conditional"] = AfterConditional(Len(o_agents))

\* C26 witness: a finished Conditional run in which one step was skipped and
\* a later step with an explicit predicate was invoked, an earlier step
\* having written the key the predicate tests
C26_Witness ==
    /\ Done("conditional")
    /\ \E c, d \in o_calls :
          /\ c.strategy = "conditional" /\ d.strategy = "conditional"
          /\ c.outcome = "skipped"
          /\ d.agent > c.agent
          /\ d.outcome # "skipped"
          /\ o_agents[d.agent].condition # "default"

InBatch(i) == \E k \in 1..Len(o_parallel) : o_parallel[k] = i

\* C27: under Hybrid only steps registered without a predicate are batched
\* and run concurrently; a step registered with an explicit predicate, lambda
\* or named function, is run alone, after every step before it in the list
\* has completed and been merged.
C27_SyncPoints ==
    /\ o_pc = "hybrid_gather" =>
          \A i \in 1..Len(o_agents) : InBatch(i) => o_agents[i].condition = "default"
    /\ o_pc = "hybrid_run" =>
          /\ o_parallel = <<>>
          /\ AllGathered
          /\ \A j \in 1..(o_i - 1) : Visits("hybrid", j) # {}

OrchNext ==
    \/ ExecuteStart
    \/ ExecuteSequentialStep
    \/ ExecuteSequentialReturn
    \/ ExecuteParallelStart
    \/ \E i \in DOMAIN NoTasks : TaskFinish(i)
    \/ ExecuteParallelMerge
    \/ ExecuteConditionalStep
    \/ ExecuteConditionalReturn
    \/ ExecuteHybridStep
    \/ ExecuteHybridTail
    \/ RunParallelBatchMerge
    \/ ExecuteHybridRun
    \/ ExecuteHybridReturn


(***************************************************************************)
(* Quality checker: data                                                   *)
(***************************************************************************)
\* _default_rules
DefaultMinResponseLength == 50

DefaultMinSearchResults == 1

\* quality_threshold 0.6, in percent
DefaultQualityThreshold == 60

DefaultRules ==
    [ min_response_length     |-> DefaultMinResponseLength,
      require_person          |-> TRUE,
      require_contact         |-> TRUE,
      require_department      |-> TRUE,
      min_search_results      |-> DefaultMinSearchResults,
      require_tacit_knowledge |-> FALSE,
      require_mailto_link     |-> TRUE,
      quality_threshold       |-> DefaultQualityThreshold ]

\* A response text, by what the checker and the curator read of it:
\* len(response), len(response.strip()), and which markers it contains
\* ("mailto:", "##", "name:", "contact:", "tacit").
ResponseOf(len, strip_len, mailto, sections, name, contact, tacit) ==
    [ len |-> len, strip_len |-> strip_len, mailto |-> mailto, sections |-> sections,
      name |-> name, contact |-> contact, tacit |-> tacit ]

\* intermediate.selected_person: None, or a dict whose name, contact value
\* and department are non-empty or not
PersonOf(present, name, contact, department) ==
    [ present |-> present, name |-> name, contact |-> contact, department |-> department ]

Persons == { PersonOf(FALSE, FALSE, FALSE, FALSE), PersonOf(TRUE, TRUE, FALSE, FALSE),
             PersonOf(TRUE, TRUE, TRUE, FALSE),    PersonOf(TRUE, TRUE, TRUE, TRUE) }

\* IntermediateInfo: selected_person, len(search_summary), len(tacit_knowledge)
IntermediateOf(person, n_search, n_tacit) ==
    [ person |-> person, n_search |-> n_search, n_tacit |-> n_tacit ]

CheckerResponses ==
    { ResponseOf(l, l, m, h, FALSE, FALSE, FALSE) : l \in {20, 60}, m \in BOOLEAN, h \in BOOLEAN }

CheckerIntermediates ==
    { IntermediateOf(p, n, t) : p \in Persons, n \in {0, 1}, t \in {0, 1} }

\* the single-key maps update_rules is called with
RuleUpdates ==
    { [key |-> k, value |-> v] :
        k \in {"require_person", "require_contact", "require_department",
               "require_tacit_knowledge", "require_mailto_link"}, v \in BOOLEAN }

NoResponse == ResponseOf(0, 0, FALSE, FALSE, FALSE, FALSE, FALSE)

NoIntermediate == IntermediateOf(PersonOf(FALSE, FALSE, FALSE, FALSE), 0, 0)

NoVerdict == [is_good |-> FALSE, num |-> 0, den |-> 0, feedback |-> <<>>]

\* An earlier check() call: self.rules when it ran, its arguments, what it
\* returned, and which calls of the checker were made after it
FirstOf(taken, rules, response, intermediate, verdict, between) ==
    [ taken |-> taken, rules |-> rules, response |-> response,
      intermediate |-> intermediate, verdict |-> verdict, between |-> between ]

NoFirst == FirstOf(FALSE, DefaultRules, NoResponse, NoIntermediate, NoVerdict, {})

Followed(first, call) ==
    IF first.taken THEN [first EXCEPT !.between = @ \cup {call}] ELSE first

(***************************************************************************)
(* Quality checker: check()                                                *)
(***************************************************************************)
\* One rule's outcome: enabled or not, its score contribution in half points
\* (0, 1 or 2) and its feedback string on violation
RuleOutcome(enabled, violated, credit, message) ==
    [ enabled |-> enabled,
      points  |-> IF violated THEN credit ELSE 2,
      message |-> IF violated THEN <<message>> ELSE <<>> ]

\* Rules 1..8 of check(), in the order the code evaluates them
RuleOutcomes(rules, response, intermediate) ==
    LET p == intermediate.person IN
    << RuleOutcome(TRUE, response.strip_len < rules.min_response_length, 0, "too short"),
       RuleOutcome(rules.require_person, ~p.present \/ ~p.name, 0, "person missing"),
       RuleOutcome(rules.require_contact, ~p.present \/ ~p.contact, 0, "contact missing"),
       RuleOutcome(rules.require_department, ~p.present \/ ~p.department, 1,
                   "department missing"),
       RuleOutcome(TRUE, intermediate.n_search < rules.min_search_results, 1,
                   "insufficient search results"),
       RuleOutcome(rules.require_tacit_knowledge, intermediate.n_tacit = 0, 0,
                   "tacit knowledge missing"),
       RuleOutcome(rules.require_mailto_link, ~response.mailto, 1, "mailto not found"),
       RuleOutcome(TRUE, ~response.sections, 1, "lacks markdown structure") >>

RECURSIVE SumPoints(_, _)
SumPoints(outs, k) ==
    IF k = 0 THEN 0
    ELSE SumPoints(outs, k - 1) + (IF outs[k].enabled THEN outs[k].points ELSE 0)

RECURSIVE Messages(_, _)
Messages(outs, k) ==
    IF k = 0 THEN <<>>
    ELSE Messages(outs, k - 1) \o (IF outs[k].enabled THEN outs[k].message ELSE <<>>)

\* overall_score >= quality_threshold, overall_score = num / den
MeetsThreshold(num, den, threshold) == num * 100 >= threshold * den

\* is_good = overall_score >= quality_threshold and len(feedback) == 0
IsGoodThresholdOnly(num, den, threshold, issues) == MeetsThreshold(num, den, threshold)

IsGood(num, den, threshold, issues) ==
    MeetsThreshold(num, den, threshold) /\ Len(issues) = 0

\* the feedback strings the rules append (the local `feedback` at line 175)
Issues(rules, response, intermediate) ==
    LET outs == RuleOutcomes(rules, response, intermediate) IN Messages(outs, Len(outs))

\* a check() whose feedback list lives on the instance and is never reset
CheckKeepsFeedback(rules, response, intermediate) ==
    LET outs   == RuleOutcomes(rules, response, intermediate)
        num    == SumPoints(outs, Len(outs))
        den    == 2 * Cardinality({k \in 1..Len(outs) : outs[k].enabled})
        issues == k_verdict.feedback \o Issues(rules, response, intermediate)
    IN [ is_good  |-> IsGood(num, den, rules.quality_threshold, issues),
         num      |-> num,
         den      |-> den,
         feedback |-> issues ]

\* check(): the ValidationResult; score = num / den, `feedback` is the list
\* returned (with the positive or "minor issues" message the code adds)
Check(rules, response, intermediate) ==
    LET outs   == RuleOutcomes(rules, response, intermediate)
        num    == SumPoints(outs, Len(outs))
        den    == 2 * Cardinality({k \in 1..Len(outs) : outs[k].enabled})
        issues == Issues(rules, response, intermediate)
        good   == IsGood(num, den, rules.quality_threshold, issues)
    IN [ is_good  |-> good,
         num      |-> num,
         den      |-> den,
         feedback |-> IF good THEN <<"meets all quality criteria">>
                      ELSE IF MeetsThreshold(num, den, rules.quality_threshold)
                           THEN <<"meets threshold but has minor issues">> \o issues
                           ELSE issues ]

\* the checker before any call
ChkIdle ==
    /\ k_rules = DefaultRules
    /\ k_response = NoResponse
    /\ k_intermediate = NoIntermediate
    /\ k_verdict = NoVerdict
    /\ k_first = NoFirst

\* a caller invokes check(response, intermediate)
CheckCall(response, intermediate) ==
    /\ k_response' = response
    /\ k_intermediate' = intermediate
    /\ k_verdict' = Check(k_rules, response, intermediate)
    /\ k_first' = Followed(k_first, "check")
    /\ UNCHANGED k_rules

DoCheck(response, intermediate) ==
    /\ CheckCall(response, intermediate)
    /\ UNCHANGED nonChkVars

\* update_rules(new_rules): self.rules.update(new_rules); no call has been
\* made under the new rules yet
UpdateRules(u) ==
    /\ k_rules' = [k_rules EXCEPT ![u.key] = u.value]
    /\ k_response' = NoResponse
    /\ k_intermediate' = NoIntermediate
    /\ k_verdict' = NoVerdict
    /\ k_first' = IF k_rules' # k_rules THEN Followed(k_first, "update_rules") ELSE k_first
    /\ UNCHANGED nonChkVars

\* the check() call that a later one with the same arguments is compared to
FirstCheck(response, intermediate) ==
    /\ ~k_first.taken
    /\ k_response' = response
    /\ k_intermediate' = intermediate
    /\ k_verdict' = Check(k_rules, response, intermediate)
    /\ k_first' = FirstOf(TRUE, k_rules, response, intermediate, k_verdict', {})
    /\ UNCHANGED k_rules
    /\ UNCHANGED nonChkVars

(***************************************************************************)
(* Quality checker: properties                                             *)
(***************************************************************************)
Checked == k_verdict # NoVerdict

PositiveFeedback == <<"meets all quality criteria">>

RuleConfigs ==
    { [DefaultRules EXCEPT !.require_person = b[1], !.require_contact = b[2],
                           !.require_department = b[3], !.require_tacit_knowledge = b[4],
                           !.require_mailto_link = b[5], !.quality_threshold = t] :
        b \in [1..5 -> BOOLEAN], t \in {0, DefaultQualityThreshold, 100} }

\* a verdict that passes on partial credit: is_good with a score below 1
\* that reaches the threshold
PassesOnPartialCredit(rules, verdict) ==
    /\ verdict.is_good
    /\ verdict.num < verdict.den
    /\ MeetsThreshold(verdict.num, verdict.den, rules.quality_threshold)

\* C35: there are inputs and rule configurations for which check() returns
\* is_good = true although at least one rule contributed only partial
\* credit (overall_score < 1 and overall_score >= quality_threshold).  The
\* configurations are the sampled ones and the one the checker holds.
C35_PartialCreditPasses ==
    \E rules \in RuleConfigs \cup {k_rules}, r \in CheckerResponses, i \in CheckerIntermediates :
        PassesOnPartialCredit(rules, Check(rules, r, i))

ChkNext ==
    \/ \E r \in CheckerResponses, i \in CheckerIntermediates : DoCheck(r, i)
    \/ \E u \in RuleUpdates : UpdateRules(u)

\* the arguments and rule updates of the callers that repeat a call
RepeatResponses ==
    { ResponseOf(60, 60, m, TRUE, FALSE, FALSE, FALSE) : m \in BOOLEAN }

RepeatIntermediates ==
    { IntermediateOf(p, 1, 0) :
        p \in {PersonOf(TRUE, TRUE, FALSE, FALSE), PersonOf(TRUE, TRUE, TRUE, TRUE)} }

RepeatUpdates ==
    { [key |-> k, value |-> v] :
        k \in {"require_contact", "require_mailto_link"}, v \in BOOLEAN }

\* the current call repeats the earlier one: same rules, same arguments
Repeats ==
    /\ Checked
    /\ k_first.taken
    /\ k_rules = k_first.rules
    /\ k_response = k_first.response
    /\ k_intermediate = k_first.intermediate

\* a step that is a check() call
IsCheckStep == k_verdict' # NoVerdict

RepeatNext ==
    \/ \E r \in RepeatResponses, i \in RepeatIntermediates : FirstCheck(r, i)
    \/ \E r \in RepeatResponses, i \in RepeatIntermediates : DoCheck(r, i)
    \/ \E u \in RepeatUpdates : UpdateRules(u)

(***************************************************************************)
(* Context curator: data                                                   *)
(***************************************************************************)
\* the context generate() builds, by what reflect() reads of it
AceContextOf(query_length, role, kw_count, info_results, tacit_results) ==
    [ query_length |-> query_length, role |-> role, kw_count |-> kw_count,
      info_results |-> info_results, tacit_results |-> tacit_results ]

\* the executions the curator is shown: (context, response) pairs
RichRun == [ context  |-> AceContextOf(12, "HR", 5, 3, 1),
             response |-> ResponseOf(150, 150, TRUE, TRUE, TRUE, TRUE, TRUE) ]

FairRun == [ context  |-> AceContextOf(4, "HR", 3, 3, 0),
             response |-> ResponseOf(150, 150, TRUE, TRUE, TRUE, TRUE, FALSE) ]

EdgeRun == [ context  |-> AceContextOf(4, "HR", 0, 3, 0),
             response |-> ResponseOf(150, 150, TRUE, TRUE, TRUE, TRUE, FALSE) ]

WeakRun == [ context  |-> AceContextOf(4, "HR", 3, 3, 0),
             response |-> ResponseOf(150, 150, FALSE, TRUE, TRUE, FALSE, FALSE) ]

PoorRun == [ context  |-> AceContextOf(4, "", 0, 0, 0),
             response |-> ResponseOf(20, 20, FALSE, FALSE, FALSE, FALSE, FALSE) ]

CuratorRuns == {RichRun, FairRun, EdgeRun, WeakRun, PoorRun}

\* the feedback lists optimize() is called with
OptimizeFeedbacks ==
    { <<"too short", "insufficient search results", "lacks markdown structure">>,
      <<"meets threshold but has minor issues", "department missing",
        "insufficient search results", "mailto not found">> }

(***************************************************************************)
(* Context curator: reflect()                                              *)
(***************************************************************************)
\* _assess_quality: overall_score in twentieths (0.2 = 4, 0.15 = 3, 0.1 = 2)
AssessQuality(context, response) ==
      (IF response.len > 100 THEN 4 ELSE 0)
    + (IF response.name THEN 4 ELSE 0)
    + (IF response.contact THEN 4 ELSE 0)
    + (IF response.tacit THEN 3 ELSE 0)
    + (IF context.kw_count > 0 THEN 3 ELSE 0)
    + (IF context.info_results + context.tacit_results > 0 THEN 2 ELSE 0)

\* _extract_patterns
ExtractPatterns(context) ==
       (IF context.query_length > 10 THEN <<"long_query_handling">> ELSE <<>>)
    \o (IF context.role # "" THEN <<"role_based_context">> ELSE <<>>)
    \o (IF context.kw_count >= 5 THEN <<"comprehensive_keywords">> ELSE <<>>)

\* _generate_suggestions
GenerateSuggestions(context, response) ==
       (IF context.kw_count < 3 THEN <<"Improve keyword extraction">> ELSE <<>>)
    \o (IF context.info_results + context.tacit_results < 3
        THEN <<"Expand search coverage">> ELSE <<>>)
    \o (IF context.tacit_results = 0 THEN <<"Integrate tacit knowledge">> ELSE <<>>)
    \o (IF response.len < 100 THEN <<"Enhance response detail">> ELSE <<>>)

\* insights that carry nothing
NoInsights == [ overall_score |-> 0, patterns |-> <<>>, suggestions |-> <<>> ]

\* reflect(context, response): the insights
Reflect(context, response) ==
    [ overall_score |-> AssessQuality(context, response),
      patterns      |-> ExtractPatterns(context),
      suggestions   |-> GenerateSuggestions(context, response) ]

(***************************************************************************)
(* Context curator: curate(), optimize(), get_context_instructions()       *)
(***************************************************************************)
\* quality.get("overall_score", 0) >= 0.7, in twentieths
SuccessThreshold == 14

ItemOf(type, stamp, text, score, loop_count, feedback, focus_areas) ==
    [ type |-> type, stamp |-> stamp, text |-> text, score |-> score,
      loop_count |-> loop_count, feedback |-> feedback, focus_areas |-> focus_areas ]

\* a curate() that converts the patterns whatever the score
CurateDeltasUngated(insights, clock) ==
    LET np == Len(insights.patterns)
    IN [k \in 1..np |->
            ItemOf("successful_pattern", clock + k, insights.patterns[k],
                   insights.overall_score, 0, <<>>, <<>>)]
       \o
       [k \in 1..Len(insights.suggestions) |->
            ItemOf("improvement_strategy", clock + np + k, insights.suggestions[k], 0,
                   0, <<>>, <<>>)]

\* curate(): the delta_items, stamped from clock + 1 on
CurateDeltas(insights, clock) ==
    LET pats == IF insights.overall_score >= SuccessThreshold
                THEN insights.patterns ELSE <<>>
        np   == Len(pats)
    IN [k \in 1..np |->
            ItemOf("successful_pattern", clock + k, pats[k], insights.overall_score,
                   0, <<>>, <<>>)]
       \o
       [k \in 1..Len(insights.suggestions) |->
            ItemOf("improvement_strategy", clock + np + k, insights.suggestions[k], 0,
                   0, <<>>, <<>>)]

\* list[-n:] of Python for n >= 0: the last n items, but the whole list
\* when n = 0 (-0 is 0)
TailSlice(seq, n) ==
    IF n = 0 \/ n >= Len(seq) THEN seq
    ELSE SubSeq(seq, Len(seq) - n + 1, Len(seq))

\* a prune that keeps the oldest items instead of the newest
PruneKeepsOldest(store, max) ==
    IF Len(store) > max THEN SubSeq(store, 1, max) ELSE store

\* "Prune old items if exceeding max"
Prune(store, max) ==
    IF Len(store) > max THEN TailSlice(store, max) ELSE store

\* the failure vocabulary a feedback string contains (lower-cased substring)
Vocabulary(message) ==
    CASE message = "too short"                   -> {"too short"}
      [] message = "person missing"              -> {"person"}
      [] message = "contact missing"             -> {"contact"}
      [] message = "department missing"          -> {"department"}
      [] message = "insufficient search results" -> {"insufficient", "search results"}
      [] message = "tacit knowledge missing"     -> {"tacit"}
      [] message = "mailto not found"            -> {"mailto"}
      [] message = "lacks markdown structure"    -> {"structure", "markdown"}
      [] OTHER                                   -> {}

\* word in " ".join(validation_feedback).lower()
InFeedback(feedback, words) ==
    \E k \in 1..Len(feedback) : Vocabulary(feedback[k]) \cap words # {}

\* focus areas that leave the person selection out
FocusAreasNoPerson(feedback) ==
       (IF InFeedback(feedback, {"too short", "insufficient"})
        THEN <<"keyword_expansion">> ELSE <<>>)
    \o (IF InFeedback(feedback, {"search results", "insufficient"})
        THEN <<"search_coverage">> ELSE <<>>)
    \o (IF InFeedback(feedback, {"structure", "markdown", "mailto"})
        THEN <<"response_formatting">> ELSE <<>>)
    \o (IF InFeedback(feedback, {"tacit"}) THEN <<"tacit_knowledge">> ELSE <<>>)

\* focus areas that leave the response formatting out
FocusAreasNoFormatting(feedback) ==
       (IF InFeedback(feedback, {"too short", "insufficient"})
        THEN <<"keyword_expansion">> ELSE <<>>)
    \o (IF InFeedback(feedback, {"search results", "insufficient"})
        THEN <<"search_coverage">> ELSE <<>>)
    \o (IF InFeedback(feedback, {"person", "contact", "department"})
        THEN <<"person_selection">> ELSE <<>>)
    \o (IF InFeedback(feedback, {"tacit"}) THEN <<"tacit_knowledge">> ELSE <<>>)

\* optimize(): the focus_areas, in the order the code appends them
FocusAreas(feedback) ==
       (IF InFeedback(feedback, {"too short", "insufficient"})
        THEN <<"keyword_expansion">> ELSE <<>>)
    \o (IF InFeedback(feedback, {"search results", "insufficient"})
        THEN <<"search_coverage">> ELSE <<>>)
    \o (IF InFeedback(feedback, {"person", "contact", "department"})
        THEN <<"person_selection">> ELSE <<>>)
    \o (IF InFeedback(feedback, {"structure", "markdown", "mailto"})
        THEN <<"response_formatting">> ELSE <<>>)
    \o (IF InFeedback(feedback, {"tacit"}) THEN <<"tacit_knowledge">> ELSE <<>>)

\* optimize(): the instruction texts, each field a list of the blocks of
\* text it holds.  A block is named after the focus area it is emitted
\* with; "=" replaces the field, "+=" adds the per-retry sentence.
Optimization(feedback, loop_count) ==
    LET keywords   == IF InFeedback(feedback, {"too short", "insufficient"})
                      THEN <<"keyword_expansion">> ELSE <<>>
        coverage   == IF InFeedback(feedback, {"search results", "insufficient"})
                      THEN <<"search_coverage">> ELSE <<>>
        person     == IF InFeedback(feedback, {"person", "contact", "department"})
                      THEN <<"person_selection">> ELSE coverage
        formatting == IF InFeedback(feedback, {"structure", "markdown", "mailto"})
                      THEN <<"response_formatting">> ELSE <<>>
        tacit      == IF InFeedback(feedback, {"tacit"})
                      THEN <<"tacit_knowledge">> ELSE person
        retry      == CASE loop_count = 1  -> <<"first_retry">>
                        [] loop_count = 2  -> <<"second_retry">>
                        [] loop_count >= 3 -> <<"final_retry">>
                        [] OTHER           -> <<>>
    IN [ loop_count            |-> loop_count,
         keywords_optimization |-> keywords,
         search_optimization   |-> tacit,
         response_optimization |-> formatting \o retry,
         focus_areas           |-> FocusAreas(feedback) ]

OptimizeOf(returned, write_ok) == [ returned |-> returned, write_ok |-> write_ok ]

NoOptimize == OptimizeOf(Optimization(<<>>, 0), FALSE)

\* _save_context_store: json.dump of the whole store; a failure is caught
\* and leaves the file as it was
SaveContextStore(store, ok) == IF ok THEN store ELSE c_disk

\* self.context_store[-20:], the window the patterns are taken from
PatternWindow == 20

\* [...][-10:], the patterns rendered at most
PatternLimit == 10

\* self.context_store[-15:], the window the strategies are taken from
StrategyWindow == 15

\* [...][-5:], the strategies rendered at most
StrategyLimit == 5

\* [item for item in items if item.get("type") == type]
OfType(items, type) == SelectSeq(items, LAMBDA item : item.type = type)

\* f"- [{score:.2f}] {description}": the score in hundredths
PatternLine(item) == [ description |-> item.text, hundredths |-> 5 * item.score ]

\* f"- {strategy}"
StrategyLine(item) == [ strategy |-> item.text ]

\* the instructions text: "" or the header followed by the two sections
InstructionsOf(blank, patterns, strategies) ==
    [ blank |-> blank, patterns |-> patterns, strategies |-> strategies ]

NoInstructions == InstructionsOf(TRUE, <<>>, <<>>)

\* get_context_instructions(query, profile)
GetContextInstructions(store) ==
    IF store = <<>> THEN NoInstructions
    ELSE LET patterns   == TailSlice(OfType(TailSlice(store, PatternWindow),
                                            "successful_pattern"), PatternLimit)
             strategies == TailSlice(OfType(TailSlice(store, StrategyWindow),
                                            "improvement_strategy"), StrategyLimit)
         IN InstructionsOf(FALSE,
                           [k \in 1..Len(patterns) |-> PatternLine(patterns[k])],
                           [k \in 1..Len(strategies) |-> StrategyLine(strategies[k])])

\* the processes that construct an ACEAgent over the same store file: the
\* service (app.py) and the runtime entrypoint
Processes == {"service", "runtime"}

\* the curator of one process: its context_store, where its
\* _save_context_store stands ("idle", or "opened": the file is open for
\* writing and nothing is written yet), whether its last save wrote the
\* file, and the calls it has made
ProcOf(store, pc, saved, calls) ==
    [ store |-> store, pc |-> pc, saved |-> saved, calls |-> calls ]

\* no process shares the file
ShareIdle ==
    /\ c_file = <<>>
    /\ c_procs = [p \in Processes |-> ProcOf(<<>>, "idle", TRUE, 0)]
    /\ c_writes = <<>>

\* a curator constructed with cap max over an absent store file
CurInit(max) ==
    /\ ShareIdle
    /\ c_max = max
    /\ c_store = <<>>
    /\ c_disk = <<>>
    /\ c_clock = 0
    /\ c_prev = <<>>
    /\ c_deltas = <<>>
    /\ c_last = "init"
    /\ c_instructions = NoInstructions
    /\ c_optimize = NoOptimize
    /\ c_insights = NoInsights

\* curate(insights)
Curate(insights, save_ok) ==
    LET deltas == CurateDeltas(insights, c_clock)
        store  == Prune(c_store \o deltas, c_max)
    IN /\ c_prev' = c_store
       /\ c_deltas' = deltas
       /\ c_store' = store
       /\ c_disk' = SaveContextStore(store, save_ok)
       /\ c_clock' = c_clock + Len(deltas)
       /\ c_last' = "curate"
       /\ c_instructions' = NoInstructions
       /\ c_optimize' = NoOptimize
       /\ c_insights' = insights
       /\ UNCHANGED <<c_max, shareVars>>

\* an optimize() that prunes the store as curate() does
OptimizeThenPrune(feedback, loop_count, save_ok) ==
    LET item  == ItemOf("optimization_attempt", c_clock + 1, "", 0, loop_count,
                        feedback, FocusAreas(feedback))
        store == Prune(Append(c_store, item), c_max)
    IN /\ c_prev' = c_store
       /\ c_deltas' = <<item>>
       /\ c_store' = store
       /\ c_disk' = SaveContextStore(store, save_ok)
       /\ c_clock' = c_clock + 1
       /\ c_last' = "optimize"
       /\ c_instructions' = NoInstructions
       /\ c_optimize' = OptimizeOf(Optimization(feedback, loop_count), save_ok)
       /\ c_insights' = NoInsights
       /\ UNCHANGED <<c_max, shareVars>>

\* optimize(context, validation_feedback, intermediate, loop_count)
Optimize(feedback, loop_count, save_ok) ==
    LET item  == ItemOf("optimization_attempt", c_clock + 1, "", 0, loop_count,
                        feedback, FocusAreas(feedback))
        store == Append(c_store, item)
    IN /\ c_prev' = c_store
       /\ c_deltas' = <<item>>
       /\ c_store' = store
       /\ c_disk' = SaveContextStore(store, save_ok)
       /\ c_clock' = c_clock + 1
       /\ c_last' = "optimize"
       /\ c_instructions' = NoInstructions
       /\ c_optimize' = OptimizeOf(Optimization(feedback, loop_count), save_ok)
       /\ c_insights' = NoInsights
       /\ UNCHANGED <<c_max, shareVars>>

\* DELETE /ace/context: context_store = []; _save_context_store()
ClearContext(save_ok) ==
    /\ c_store # <<>>
    /\ c_prev' = c_store
    /\ c_deltas' = <<>>
    /\ c_store' = <<>>
    /\ c_disk' = SaveContextStore(<<>>, save_ok)
    /\ c_last' = "clear"
    /\ c_instructions' = NoInstructions
    /\ c_optimize' = NoOptimize
    /\ c_insights' = NoInsights
    /\ UNCHANGED <<c_max, c_clock, shareVars>>

CurateCall ==
    /\ \E ex \in CuratorRuns, ok \in BOOLEAN :
          LET insights == Reflect(ex.context, ex.response)
          IN /\ c_clock + Len(CurateDeltas(insights, c_clock)) <= MaxItems
             /\ Curate(insights, ok)
    /\ UNCHANGED nonCurVars

OptimizeCall ==
    /\ c_clock + 1 <= MaxItems
    /\ \E fb \in OptimizeFeedbacks, n \in 1..2, ok \in BOOLEAN : Optimize(fb, n, ok)
    /\ UNCHANGED nonCurVars

ClearCall ==
    /\ \E ok \in BOOLEAN : ClearContext(ok)
    /\ UNCHANGED nonCurVars

\* generate(query, profile, keywords, search_results, tacit_results,
\* intermediate): builds and returns the context dict
GenerateCall ==
    /\ c_last' = "generate"
    /\ c_prev' = c_store
    /\ c_deltas' = <<>>
    /\ c_instructions' = NoInstructions
    /\ c_optimize' = NoOptimize
    /\ c_insights' = NoInsights
    /\ UNCHANGED <<c_max, c_store, c_disk, c_clock, shareVars, nonCurVars>>

\* reflect(context, response): builds and returns the insights dict
ReflectCall ==
    /\ c_last' = "reflect"
    /\ c_prev' = c_store
    /\ c_deltas' = <<>>
    /\ c_instructions' = NoInstructions
    /\ c_optimize' = NoOptimize
    /\ c_insights' = NoInsights
    /\ UNCHANGED <<c_max, c_store, c_disk, c_clock, shareVars, nonCurVars>>

\* get_context_instructions(query, profile)
InstructionsCall ==
    /\ c_instructions' = GetContextInstructions(c_store)
    /\ c_optimize' = NoOptimize
    /\ c_insights' = NoInsights
    /\ c_last' = "get_context_instructions"
    /\ c_prev' = c_store
    /\ c_deltas' = <<>>
    /\ UNCHANGED <<c_max, c_store, c_disk, c_clock, shareVars, nonCurVars>>

\* the process starts again: ACEAgent(max_context_items) loads the items of
\* the store file
Reload ==
    /\ c_store # c_disk
    /\ c_store' = c_disk
    /\ c_prev' = c_store
    /\ c_deltas' = <<>>
    /\ c_last' = "load"
    /\ c_instructions' = NoInstructions
    /\ c_optimize' = NoOptimize
    /\ c_insights' = NoInsights
    /\ UNCHANGED <<c_max, c_disk, c_clock, shareVars, nonCurVars>>

\* the failure categories of optimize() and the feedback vocabulary of each
Categories ==
    { "keyword_expansion", "search_coverage", "person_selection", "response_formatting",
      "tacit_knowledge" }

CategoryWords(category) ==
    CASE category = "keyword_expansion"   -> {"too short", "insufficient"}
      [] category = "search_coverage"     -> {"search results", "insufficient"}
      [] category = "person_selection"    -> {"person", "contact", "department"}
      [] category = "response_formatting" -> {"structure", "markdown", "mailto"}
      [] category = "tacit_knowledge"     -> {"tacit"}

Holds(seq, x) == \E k \in 1..Len(seq) : seq[k] = x

\* the feedback the last optimize() call was given
LastFeedback == c_deltas[1].feedback

\* C29: for every failure category whose vocabulary occurs in the feedback,
\* the result of optimize() has the category's tag in focus_areas and the
\* category's instruction text in one of its instruction fields; with several
\* categories matched every one's text is there.
C29_InstructionPerConcern ==
    c_last = "optimize" =>
        \A category \in Categories :
            InFeedback(LastFeedback, CategoryWords(category)) =>
                /\ Holds(c_optimize.returned.focus_areas, category)
                /\ \/ Holds(c_optimize.returned.keywords_optimization, category)
                   \/ Holds(c_optimize.returned.search_optimization, category)
                   \/ Holds(c_optimize.returned.response_optimization, category)

\* C30: an optimize() call appends exactly one optimization_attempt item
\* (retry number, feedback, focus areas) at the end of the store, leaves the
\* items already there unchanged and in order, and writes the store to its
\* file before returning (the file holds the store unless that write failed,
\* which the call logs and survives).
C30_OptimizeAppends ==
    c_last = "optimize" =>
        /\ Len(c_store) = Len(c_prev) + 1
        /\ SubSeq(c_store, 1, Len(c_prev)) = c_prev
        /\ Len(c_deltas) = 1
        /\ c_store[Len(c_store)] = c_deltas[1]
        /\ c_deltas[1].type = "optimization_attempt"
        /\ c_deltas[1].loop_count = c_optimize.returned.loop_count
        /\ c_deltas[1].focus_areas = c_optimize.returned.focus_areas
        /\ c_optimize.write_ok => c_disk = c_store

\* C30 witness: an optimize() call on a store that was at its cap, persisted
C30_Witness ==
    /\ c_last = "optimize"
    /\ Len(c_prev) >= 1
    /\ Len(c_prev) >= c_max
    /\ c_optimize.write_ok
    /\ c_disk = c_store

CurNext ==
    \/ CurateCall
    \/ OptimizeCall
    \/ ClearCall
    \/ GenerateCall
    \/ ReflectCall
    \/ InstructionsCall
    \/ Reload

(***************************************************************************)
(* Retry loop, steps 5 to 7: a failing verdict's feedback goes to optimize *)
(***************************************************************************)
\* the rule configurations of the callers: the sampled ones, and the same
\* under a quality_threshold of 1.1
ActionableConfigs ==
    RuleConfigs \cup { [rules EXCEPT !.quality_threshold = 110] : rules \in RuleConfigs }

\* the caller has not optimized yet
Grading == c_last # "optimize"

\* if not validation_result.is_good: ace_agent.optimize(context,
\* validation_result.feedback, intermediate, loop_count)
OptimizeVerdict ==
    /\ Grading
    /\ Checked
    /\ ~k_verdict.is_good
    /\ \E n \in 1..2, ok \in BOOLEAN : Optimize(k_verdict.feedback, n, ok)
    /\ UNCHANGED nonCurVars

\* validation_result = checker_agent.check(content, intermediate, ...)
GradeCall ==
    /\ ~Checked
    /\ \E r \in CheckerResponses, i \in CheckerIntermediates : DoCheck(r, i)

ActionableNext ==
    \/ GradeCall
    \/ OptimizeVerdict

NoDuplicates(seq) == \A j, k \in 1..Len(seq) : seq[j] = seq[k] => j = k

\* C37: for every verdict with is_good = false that check() produces under
\* a quality_threshold of at most 1, optimize() called with the verdict's
\* feedback returns a non-empty focus_areas list whose elements are distinct
\* and drawn from the five failure categories.
C37_FailingVerdictActionable ==
    (c_last = "optimize" /\ k_rules.quality_threshold <= 100) =>
        LET areas == c_optimize.returned.focus_areas
        IN /\ LastFeedback = k_verdict.feedback
           /\ ~k_verdict.is_good
           /\ Len(areas) >= 1
           /\ NoDuplicates(areas)
           /\ \A k \in 1..Len(areas) : areas[k] \in Categories

\* C37 witness: optimize() called with the feedback of a verdict that fails
\* although its score reaches the threshold, for a single issue that falls
\* in one category
C37_Witness ==
    /\ c_last = "optimize"
    /\ k_rules.quality_threshold <= 100
    /\ MeetsThreshold(k_verdict.num, k_verdict.den, k_rules.quality_threshold)
    /\ Len(Issues(k_rules, k_response, k_intermediate)) = 1
    /\ c_optimize.returned.focus_areas = <<"response_formatting">>

(***************************************************************************)
(* Context curator: properties                                             *)
(***************************************************************************)
\* the n most recent items of seq, in insertion order
MostRecent(seq, n) ==
    IF n >= Len(seq) THEN seq
    ELSE SubSeq(seq, Len(seq) - n + 1, Len(seq))

\* C6: for a curator constructed with any cap, after each curate() call
\* len(store) <= max_context_items and the store is exactly the last
\* max_context_items items of (store before the call, then the new deltas),
\* in insertion order.
C6_StoreSizeInvariant ==
    c_last = "curate" =>
        /\ Len(c_store) <= c_max
        /\ c_store = MostRecent(c_prev \o c_deltas, c_max)

\* the calls that only read the store
Readers == {"generate", "reflect", "get_context_instructions"}

IsSuffix(suffix, seq) ==
    /\ Len(suffix) <= Len(seq)
    /\ SubSeq(seq, Len(seq) - Len(suffix) + 1, Len(seq)) = suffix

C17_HardCap ==
    /\ Len(c_store) <= c_max
    /\ Len(c_disk) <= c_max

\* C19: get_context_instructions renders the min(10, P) most recent
\* successful_pattern items, each with its quality score, and the
\* min(5, S) most recent improvement_strategy items, P and S counted over
\* the whole store, and leaves the store as it was
C19_InstructionsContent ==
    c_last = "get_context_instructions" =>
        LET patterns   == MostRecent(OfType(c_store, "successful_pattern"), PatternLimit)
            strategies == MostRecent(OfType(c_store, "improvement_strategy"),
                                     StrategyLimit)
        IN /\ c_instructions.patterns
                  = [k \in 1..Len(patterns) |-> PatternLine(patterns[k])]
           /\ c_instructions.strategies
                  = [k \in 1..Len(strategies) |-> StrategyLine(strategies[k])]
           /\ c_store = c_prev

(***************************************************************************)
(* Bus, monitor and state store: the operations the control loop calls     *)
(***************************************************************************)
\* AgentCommunicationBus(max_history=1000)
DefaultMaxHistory == 1000

\* AgentMonitor(max_metrics=10000)
DefaultMaxMetrics == 10000

\* ACEAgent(max_context_items=50)
DefaultMaxContextItems == 50

\* the names record_execution is called with
MonitoredAgents ==
    { "keywords_finder", "info_finder", "tacit_finder", "people_finder",
      "response_builder", "checker_agent", "main_pipeline" }

\* AgentMessage(sender="orchestrator", topic, data): data["agent"] and
\* data["loop"] of agent.execute, data["chatId"] of pipeline.*
MessageOf(topic, agent, loop, chat) ==
    [ sender |-> "orchestrator", topic |-> topic, agent |-> agent, loop |-> loop,
      chat |-> chat ]

\* publish(message): append, then keep the last max_history messages; the
\* one subscriber of the service (log_agent_event) only logs
Publish(history, message) ==
    LET h == Append(history, message)
    IN IF Len(h) > b_max_history THEN TailSlice(h, b_max_history) ELSE h

\* one entry of metrics[agent_name]
RecordOf(execution_time_ms, success) ==
    [ execution_time_ms |-> execution_time_ms, success |-> success ]

\* (time.time() - start) * 1000 of a step of the pipeline, in ms
Elapsed == 1

\* record_execution(agent_name, execution_time_ms, success, metadata)
RecordExecution(metrics, agent_name, execution_time_ms, success) ==
    LET l == Append(metrics[agent_name], RecordOf(execution_time_ms, success))
    IN [metrics EXCEPT ![agent_name] =
            IF Len(l) > m_max_metrics THEN TailSlice(l, m_max_metrics) ELSE l]

\* record_error(agent_name, error, context)
RecordError(errors, agent_name, chat) ==
    LET l == Append(errors, [agent |-> agent_name, chat |-> chat])
    IN IF Len(l) > m_max_metrics THEN TailSlice(l, m_max_metrics) ELSE l

\* the chat sessions of the requests
Chats == {"c1"}

\* session keys and component names of direct state-store callers
SessionKeys == {"a", "a_b"}

Components == {"c", "b_c"}

\* the text of an identifier, cut at its underscores
Chars(id) ==
    CASE id = "a"             -> <<"a">>
      [] id = "a_b"           -> <<"a", "_", "b">>
      [] id = "c"             -> <<"c">>
      [] id = "b_c"           -> <<"b", "_", "c">>
      [] id = "c1"            -> <<"c1">>
      [] id = "main_pipeline" -> <<"main", "_", "pipeline">>

\* state_file = self.state_dir / f"{chat_id}_{agent_name}.json"
FileName(chat, agent_name) == Chars(chat) \o <<"_">> \o Chars(agent_name) \o <<".json">>

\* the (chat_id, agent_name) pairs the callers use
StateKeys == (SessionKeys \X Components) \cup (Chats \X {"main_pipeline"})

\* the files agent_states can hold: those of the direct callers and the
\* main_pipeline record of every session
FileNames ==
    { FileName(k[1], k[2]) : k \in StateKeys \cup (SessionKeys \X {"main_pipeline"}) }

IsPrefix(p, seq) == Len(p) <= Len(seq) /\ SubSeq(seq, 1, Len(p)) = p

\* self.state_dir.glob(f"{chat_id}_*.json"): the star matches any text,
\* the empty text and text with underscores included
GlobMatches(name, chat) ==
    /\ IsPrefix(Chars(chat) \o <<"_">>, name)
    /\ Len(name) >= Len(Chars(chat)) + 2
    /\ name[Len(name)] = ".json"

\* the saved state of a chat: None, or the dict the caller saves
NoState ==
    [ present |-> FALSE, last_keywords |-> 0, num |-> 0, den |-> 0, loops_required |-> 0 ]

StateOf(last_keywords, num, den, loops_required) ==
    [ present |-> TRUE, last_keywords |-> last_keywords, num |-> num, den |-> den,
      loops_required |-> loops_required ]

\* a file of agent_states: missing, holding the JSON text of a state, or
\* holding text that is no JSON document
FileOf(exists, valid, state) == [ exists |-> exists, valid |-> valid, state |-> state ]

NoFile == FileOf(FALSE, FALSE, NoState)

\* how a save_state call goes: it writes the file; open() raises; or
\* json.dump raises (an I/O error, a value json cannot serialise) after
\* open(state_file, 'w') has emptied the file
SaveOutcomes == {"ok", "open_fails", "dump_fails"}

\* save_state(chat_id, agent_name, state): every exception is caught and logged
SaveState(files, chat, agent_name, state, outcome) ==
    CASE outcome = "ok" ->
            [files EXCEPT ![FileName(chat, agent_name)] = FileOf(TRUE, TRUE, state)]
      [] outcome = "open_fails" -> files
      [] outcome = "dump_fails" ->
            [files EXCEPT ![FileName(chat, agent_name)] = FileOf(TRUE, FALSE, NoState)]

\* load_state(chat_id, agent_name): the state, or None when the file is
\* missing or reading or parsing it raises
LoadState(files, chat, agent_name, read_ok) ==
    LET f == files[FileName(chat, agent_name)]
    IN IF f.exists /\ f.valid /\ read_ok THEN f.state ELSE NoState

\* what clear_state(chat_id) iterates over
Globbed(files, chat) == { n \in DOMAIN files : files[n].exists /\ GlobMatches(n, chat) }

\* clear_state(chat_id): unlink the globbed files; `deleted` are the ones
\* unlinked before an exception (all of them when none is raised)
ClearState(files, deleted) ==
    [n \in DOMAIN files |-> IF n \in deleted THEN NoFile ELSE files[n]]

\* list_chats(): state_file.stem.split("_")[0] of every *.json file
ListChats(files) == { <<n[1]>> : n \in { m \in DOMAIN files : files[m].exists } }

\* the topics of direct bus callers
BusTopics == {"t1", "t2"}

\* a publish() call as the history records it: where it is, the callbacks
\* it found for the topic and what became of each
PubOf(pc, topic, handlers, status) ==
    [ pc |-> pc, topic |-> topic, handlers |-> handlers, status |-> status ]

NoPub == PubOf("idle", "", <<>>, <<>>)

BusInit(max_history) ==
    /\ b_max_history = max_history
    /\ b_history = <<>>
    /\ b_subscribers = [t \in BusTopics |-> <<>>]
    /\ b_published = <<>>
    /\ b_pub = NoPub

\* a direct call of the monitor: its arguments and what it returned
MonCall(op, agent_name, limit, returned) ==
    [ op |-> op, agent_name |-> agent_name, limit |-> limit, returned |-> returned ]

NoMonCall == MonCall("none", "", 0, <<>>)

MonInit(max_metrics) ==
    /\ m_max_metrics = max_metrics
    /\ m_metrics = [a \in MonitoredAgents |-> <<>>]
    /\ m_errors = <<>>
    /\ m_recorded = <<>>
    /\ m_raised = <<>>
    /\ m_call = NoMonCall

\* a state-store call as the history records it
StoreCall(op, chat, agent_name, outcome, returned) ==
    [ op |-> op, chat |-> chat, agent_name |-> agent_name, outcome |-> outcome,
      returned |-> returned ]

NoStoreCall == StoreCall("none", "", "", "", NoState)

StoreInit ==
    /\ s_files = [n \in FileNames |-> NoFile]
    /\ s_prev = s_files
    /\ s_last = NoStoreCall

(***************************************************************************)
(* Control loop: data                                                      *)
(***************************************************************************)
\* max_loops = 3
MaxLoops == 3

\* run_agents (service, POST /agents/run) and invoke (runtime entrypoint)
Variants == {"run_agents", "invoke"}

\* a request: chatId, len(prompt.split()), profile["role"]
RequestOf(chat, query_length, role) ==
    [ chat |-> chat, query_length |-> query_length, role |-> role ]

Requests == { RequestOf("c1", 12, "HR") }

NoRequest == RequestOf("", 0, "")

\* the requests of the end-to-end scenario: the query "What's the
\* onboarding process?" (four words) with profile {role: "HR"}, and the
\* same query with a profile whose role is empty
ScenarioRequests == { RequestOf("c1", 4, "HR"), RequestOf("c1", 4, "") }

\* what the domain steps return in one attempt: len(info.keywords),
\* len(results), len(tacit_results), the selected person, the built text
WorldOf(kw_count, results, tacit_results, person, response) ==
    [ kw_count |-> kw_count, results |-> results, tacit_results |-> tacit_results,
      person |-> person, response |-> response ]

GoodWorld ==
    WorldOf(4, 3, 1, PersonOf(TRUE, TRUE, TRUE, TRUE),
            ResponseOf(150, 150, TRUE, TRUE, TRUE, TRUE, TRUE))

MinorWorld ==
    WorldOf(3, 3, 0, PersonOf(TRUE, TRUE, TRUE, FALSE),
            ResponseOf(150, 150, TRUE, TRUE, TRUE, TRUE, FALSE))

BadWorld ==
    WorldOf(0, 0, 0, PersonOf(TRUE, TRUE, FALSE, FALSE),
            ResponseOf(20, 20, FALSE, FALSE, FALSE, FALSE, FALSE))

AttemptWorlds == {GoodWorld, MinorWorld, BadWorld}

\* the world an attempt is in, once keywords_finder has returned
World(info) == CHOOSE w \in AttemptWorlds : w.kw_count = info

Min(a, b) == IF a < b THEN a ELSE b

NoContext == AceContextOf(0, "", 0, 0, 0)

\* the "validation" block of the returned dict
ValidationOf(verdict, loops_executed, optimization_history) ==
    [ is_good |-> verdict.is_good, num |-> verdict.num, den |-> verdict.den,
      feedback |-> verdict.feedback, loops_executed |-> loops_executed,
      optimization_history |-> optimization_history ]

NoValidation == ValidationOf(NoVerdict, 0, <<>>)

\* what a caller receives: a dict (kind "returned") with its keys, or an
\* exception (kind "raised") with its attributes
OutcomeOf(kind, fields, chatId, content, validation, deltas_added, loaded) ==
    [ kind |-> kind, fields |-> fields, chatId |-> chatId, content |-> content,
      validation |-> validation, deltas_added |-> deltas_added,
      previous_state_loaded |-> loaded ]

NoOutcome == OutcomeOf("none", {}, "", NoResponse, NoValidation, 0, FALSE)

\* the local variables of a call, before the loop
NoRun ==
    [ pc |-> "idle", req |-> NoRequest, previous_state |-> FALSE,
      loop_count |-> 0, is_good |-> FALSE, final_content |-> NoResponse,
      final_intermediate |-> NoIntermediate, validation_result |-> NoVerdict,
      optimization_history |-> <<>>, info |-> -1, results |-> 0, tacit_results |-> 0,
      intermediate |-> NoIntermediate, content |-> NoResponse,
      ace_context |-> NoContext, ace_insights |-> NoInsights, ace_deltas |-> <<>>,
      ace_instructions |-> NoInstructions, optimization |-> <<>> ]

\* the guidance the loop holds in its locals: ace_instructions and
\* optimization["focus_areas"]
GuidanceOf(instructions, optimization) ==
    [ instructions |-> instructions, optimization |-> optimization ]

\* the arguments the domain steps of one attempt are called with, apart
\* from what an earlier step of the same attempt returned:
\* extract_keywords(req.prompt, req.profile), search(prompt, keywords),
\* select_person(results, keywords), build_response(intermediate,
\* req.profile, req.prompt) -- no call takes ace_instructions or optimization
StepInputs(r) ==
    [ prompt |-> r.req.query_length, profile |-> r.req.role,
      guidance |-> GuidanceOf(NoInstructions, <<>>) ]

\* one entry of the history of calls of a run
TraceOf(call, intermediate, response) ==
    [ call |-> call, intermediate |-> intermediate, response |-> response ]

Called(call) == TraceOf(call, NoIntermediate, NoResponse)

LoopInit(variant) ==
    /\ r_variant = variant
    /\ run = NoRun
    /\ r_runs = 0
    /\ r_outcome = NoOutcome
    /\ r_trace = <<>>
    /\ r_attempts = <<>>
    /\ r_mark = 0

\* a process as constructed at import: default bus, monitor, state store
RunInit(variant) ==
    /\ BusInit(DefaultMaxHistory)
    /\ MonInit(DefaultMaxMetrics)
    /\ StoreInit
    /\ LoopInit(variant)

RunIdle == RunInit("run_agents")

\* generate(query, profile, keywords, search_results, tacit_results, intermediate)
Generate(req, info, results, tacit_results, intermediate) ==
    AceContextOf(req.query_length, req.role, info, results, tacit_results)

(***************************************************************************)
(* Control loop: run_agents / invoke                                       *)
(***************************************************************************)
\* while loop_count < max_loops and not is_good
WhileConditionInclusive(loop_count, is_good) == loop_count <= MaxLoops /\ ~is_good

WhileConditionCountOnly(loop_count, is_good) == loop_count < MaxLoops

WhileCondition(loop_count, is_good) == loop_count < MaxLoops /\ ~is_good

\* loop_count += 1
NextLoopCountStuck(loop_count) == loop_count

NextLoopCount(loop_count) == loop_count + 1

\* if not is_good and loop_count < max_loops
\* an `if not is_good:` without the test on loop_count
NeedsOptimizeAlways(loop_count, is_good) == ~is_good

NeedsOptimize(loop_count, is_good) == ~is_good /\ loop_count < MaxLoops

\* where the code goes when the loop exits: the final ACE phases
AfterLoopOnlyIfGood(is_good) == IF is_good THEN "generate" ELSE "record"

AfterLoop(is_good) == "generate"

\* raise points that include the publish of pipeline.complete
RaisePointsLate == {"keywords", "search", "people", "attach", "build", "complete"}

\* the calls that run inside the try block and may raise: the domain steps
\* and the assignment of intermediate.tacit_knowledge (types.py declares no
\* such field on IntermediateInfo, and pydantic accepts or rejects the
\* assignment depending on the model's configuration)
RaisePoints == {"keywords", "search", "people", "attach", "build"}

\* the dict the call returns
ReturnOutcome ==
    OutcomeOf("returned",
              IF r_variant = "invoke"
              THEN {"result", "debug", "validation", "ace", "performance", "chatId"}
              ELSE {"content", "debug", "validation", "ace", "performance"},
              IF r_variant = "invoke" THEN run.req.chat ELSE "",
              run.final_content,
              ValidationOf(run.validation_result, run.loop_count,
                           run.optimization_history),
              Len(run.ace_deltas),
              run.previous_state)

\* what the except clause hands to the caller: invoke returns
\* {"error": str(e), "chatId": chat_id}, run_agents raises
\* HTTPException(status_code=500, detail=str(e))
ErrorOutcome ==
    IF r_variant = "invoke"
    THEN OutcomeOf("returned", {"error", "chatId"}, run.req.chat, NoResponse,
                   NoValidation, 0, FALSE)
    ELSE OutcomeOf("raised", {"status_code", "detail"}, "", NoResponse,
                   NoValidation, 0, FALSE)

\* the frame of a finished call: its locals are gone
Ended(pc) == [NoRun EXCEPT !.pc = pc, !.req = run.req]

\* a request arrives: publish pipeline.start, load the state, read the
\* instructions, initialise the loop variables
StartRun(req, max_runs) ==
    /\ run.pc \in {"idle", "done", "failed"}
    /\ r_runs < max_runs
    /\ b_history' = Publish(b_history, MessageOf("pipeline.start", "", 0, req.chat))
    /\ run' = [NoRun EXCEPT !.pc = "while", !.req = req,
                            !.previous_state =
                                LoadState(s_files, req.chat, "main_pipeline", TRUE).present,
                            !.ace_instructions = GetContextInstructions(c_store)]
    /\ r_runs' = r_runs + 1
    /\ r_outcome' = NoOutcome
    /\ r_trace' = << Called("pipeline.start"), Called("load_state"),
                     Called("get_context_instructions") >>
    /\ r_attempts' = <<>>
    /\ r_mark' = Len(m_errors)
    /\ UNCHANGED <<b_max_history, monVars, s_files, svcVars, r_variant, orchVars, chkVars,
                   curVars>>

RunStartWith(req) == StartRun(req, MaxRuns)

RunStart == \E req \in Requests : RunStartWith(req)

\* a request of the end-to-end scenario arrives
ScenarioStart == \E req \in ScenarioRequests : RunStartWith(req)

\* the loop condition holds: loop_count += 1, announce keywords_finder
\* and call it
LoopEnter ==
    /\ run.pc = "while"
    /\ WhileCondition(run.loop_count, run.is_good)
    /\ LET n == NextLoopCount(run.loop_count)
       IN /\ run' = [run EXCEPT !.pc = "keywords", !.loop_count = n]
          /\ b_history' = Publish(b_history,
                 MessageOf("agent.execute", "keywords_finder", n, run.req.chat))
    /\ r_trace' = Append(r_trace, Called("attempt"))
    /\ UNCHANGED <<b_max_history, monVars, s_files, svcVars, r_variant, r_runs, r_outcome, r_attempts,
                   r_mark, orchVars, chkVars, curVars>>

\* the loop condition fails
LoopExit ==
    /\ run.pc = "while"
    /\ ~WhileCondition(run.loop_count, run.is_good)
    /\ run' = [run EXCEPT !.pc = AfterLoop(run.is_good)]
    /\ UNCHANGED <<busVars, monVars, s_files, svcVars, r_variant, r_runs, r_outcome, r_trace, r_attempts,
                   r_mark, orchVars, chkVars, curVars>>

\* keywords_finder.extract_keywords returns
KeywordsReturn ==
    /\ run.pc = "keywords"
    /\ \E w \in AttemptWorlds :
          run' = [run EXCEPT !.pc = "search", !.info = w.kw_count]
    /\ m_metrics' = RecordExecution(m_metrics, "keywords_finder", Elapsed, TRUE)
    /\ b_history' = Publish(b_history,
           MessageOf("agent.execute", "search_parallel", run.loop_count, run.req.chat))
    /\ UNCHANGED <<b_max_history, m_max_metrics, m_errors, monHist, s_files, svcVars, r_variant, r_runs, r_outcome,
                   r_trace, r_attempts, r_mark, orchVars, chkVars, curVars>>

\* asyncio.gather(info_finder.search, tacit_finder.search) returns
SearchReturn ==
    /\ run.pc = "search"
    /\ run' = [run EXCEPT !.pc = "people",
                          !.results = World(run.info).results,
                          !.tacit_results = World(run.info).tacit_results]
    /\ m_metrics' = RecordExecution(RecordExecution(m_metrics, "info_finder", Elapsed, TRUE),
                                    "tacit_finder", Elapsed, TRUE)
    /\ b_history' = Publish(b_history,
           MessageOf("agent.execute", "people_finder", run.loop_count, run.req.chat))
    /\ UNCHANGED <<b_max_history, m_max_metrics, m_errors, monHist, s_files, svcVars, r_variant, r_runs, r_outcome,
                   r_trace, r_attempts, r_mark, orchVars, chkVars, curVars>>

\* people_finder.select_person returns IntermediateInfo(selected_person,
\* search_summary = results[:5])
PeopleReturn ==
    /\ run.pc = "people"
    /\ run' = [run EXCEPT !.pc = "attach",
                          !.intermediate = IntermediateOf(World(run.info).person,
                                                          Min(run.results, 5), 0)]
    /\ m_metrics' = RecordExecution(m_metrics, "people_finder", Elapsed, TRUE)
    /\ UNCHANGED <<busVars, m_max_metrics, m_errors, monHist, s_files, svcVars, r_variant, r_runs, r_outcome,
                   r_trace, r_attempts, r_mark, orchVars, chkVars, curVars>>

\* intermediate.tacit_knowledge = tacit_results[:5];
\* intermediate.search_summary = results[:5]; announce response_builder
Attach ==
    /\ run.pc = "attach"
    /\ run' = [run EXCEPT !.pc = "build",
                          !.intermediate = IntermediateOf(run.intermediate.person,
                                                          Min(run.results, 5),
                                                          Min(run.tacit_results, 5))]
    /\ b_history' = Publish(b_history,
           MessageOf("agent.execute", "response_builder", run.loop_count, run.req.chat))
    /\ UNCHANGED <<b_max_history, monVars, s_files, svcVars, r_variant, r_runs, r_outcome, r_trace,
                   r_attempts, r_mark, orchVars, chkVars, curVars>>

\* response_builder.build_response returns
BuildReturn ==
    /\ run.pc = "build"
    /\ run' = [run EXCEPT !.pc = "check", !.content = World(run.info).response]
    /\ m_metrics' = RecordExecution(m_metrics, "response_builder", Elapsed, TRUE)
    /\ UNCHANGED <<busVars, m_max_metrics, m_errors, monHist, s_files, svcVars, r_variant, r_runs, r_outcome,
                   r_trace, r_attempts, r_mark, orchVars, chkVars, curVars>>

\* validation_result = checker_agent.check(...); is_good, final_content
\* and final_intermediate take this attempt's values
CheckStep ==
    /\ run.pc = "check"
    /\ CheckCall(run.content, run.intermediate)
    /\ LET verdict == k_verdict'
       IN /\ run' = [run EXCEPT !.pc = "graded",
                                !.validation_result = verdict,
                                !.is_good = verdict.is_good,
                                !.final_content = run.content,
                                !.final_intermediate = run.intermediate]
          /\ r_attempts' = Append(r_attempts,
                 [ info |-> run.info, results |-> run.results,
                   tacit_results |-> run.tacit_results, content |-> run.content,
                   intermediate |-> run.intermediate, verdict |-> verdict,
                   inputs |-> StepInputs(run),
                   guidance |-> GuidanceOf(run.ace_instructions, run.optimization) ])
    /\ m_metrics' = RecordExecution(m_metrics, "checker_agent", Elapsed, TRUE)
    /\ r_trace' = Append(r_trace, TraceOf("check", run.intermediate, run.content))
    /\ UNCHANGED <<busVars, m_max_metrics, m_errors, monHist, s_files, svcVars, r_variant, r_runs, r_outcome,
                   r_mark, orchVars, curVars>>

\* not good and attempts left: publish validation.failed, generate,
\* optimize, note the attempt in optimization_history, read the instructions
Retry ==
    /\ run.pc = "graded"
    /\ NeedsOptimize(run.loop_count, run.is_good)
    /\ b_history' = Publish(b_history,
           MessageOf("validation.failed", "", run.loop_count, run.req.chat))
    /\ Optimize(run.validation_result.feedback, run.loop_count, TRUE)
    /\ run' = [run EXCEPT
                  !.pc = "while",
                  !.ace_context = Generate(run.req, run.info, run.results,
                                           run.tacit_results, run.intermediate),
                  !.optimization = FocusAreas(run.validation_result.feedback),
                  !.ace_instructions = GetContextInstructions(c_store'),
                  !.optimization_history = Append(@,
                      [ loop |-> run.loop_count,
                        num |-> run.validation_result.num,
                        den |-> run.validation_result.den,
                        feedback |-> run.validation_result.feedback,
                        optimization |-> FocusAreas(run.validation_result.feedback) ])]
    /\ r_trace' = r_trace \o << Called("validation.failed"),
                                TraceOf("generate", run.intermediate, NoResponse),
                                Called("optimize"), Called("get_context_instructions") >>
    /\ UNCHANGED <<b_max_history, monVars, s_files, svcVars, r_variant, r_runs, r_outcome, r_attempts,
                   r_mark, orchVars, chkVars>>

\* good, or no attempt left: back to the loop condition
NoRetry ==
    /\ run.pc = "graded"
    /\ ~NeedsOptimize(run.loop_count, run.is_good)
    /\ run' = [run EXCEPT !.pc = "while"]
    /\ UNCHANGED <<busVars, monVars, s_files, svcVars, r_variant, r_runs, r_outcome, r_trace, r_attempts,
                   r_mark, orchVars, chkVars, curVars>>

\* ace_context = ace_agent.generate(..., intermediate=final_intermediate)
GenerateStep ==
    /\ run.pc = "generate"
    /\ run' = [run EXCEPT !.pc = "reflect",
                          !.ace_context = Generate(run.req, run.info, run.results,
                                                   run.tacit_results,
                                                   run.final_intermediate)]
    /\ r_trace' = Append(r_trace, TraceOf("generate", run.final_intermediate, NoResponse))
    /\ UNCHANGED <<busVars, monVars, s_files, svcVars, r_variant, r_runs, r_outcome, r_attempts, r_mark,
                   orchVars, chkVars, curVars>>

\* ace_insights = ace_agent.reflect(context=ace_context, response=final_content)
ReflectStep ==
    /\ run.pc = "reflect"
    /\ run' = [run EXCEPT !.pc = "curate",
                          !.ace_insights = Reflect(run.ace_context, run.final_content)]
    /\ r_trace' = Append(r_trace, TraceOf("reflect", NoIntermediate, run.final_content))
    /\ UNCHANGED <<busVars, monVars, s_files, svcVars, r_variant, r_runs, r_outcome, r_attempts, r_mark,
                   orchVars, chkVars, curVars>>

\* ace_deltas = ace_agent.curate(ace_insights)
CurateStep ==
    /\ run.pc = "curate"
    /\ Curate(run.ace_insights, TRUE)
    /\ run' = [run EXCEPT !.pc = "record",
                          !.ace_deltas = CurateDeltas(run.ace_insights, c_clock)]
    /\ r_trace' = Append(r_trace, Called("curate"))
    /\ UNCHANGED <<busVars, monVars, s_files, svcVars, r_variant, r_runs, r_outcome, r_attempts, r_mark,
                   orchVars, chkVars>>

\* agent_monitor.record_execution("main_pipeline", ..., validation_result.is_good)
RecordPipeline ==
    /\ run.pc = "record"
    /\ m_metrics' = RecordExecution(m_metrics, "main_pipeline", Elapsed,
                                    run.validation_result.is_good)
    /\ run' = [run EXCEPT !.pc = "save"]
    /\ r_trace' = Append(r_trace, Called("record_execution"))
    /\ UNCHANGED <<busVars, m_max_metrics, m_errors, monHist, s_files, svcVars, r_variant, r_runs, r_outcome,
                   r_attempts, r_mark, orchVars, chkVars, curVars>>

\* a state dict that takes its score and its count from before the loop
PipelineStateStale(r) == StateOf(r.info, 0, 1, 0)

\* the dict run_agents saves: last_keywords, validation_score, loops_required
PipelineState(r) ==
    StateOf(r.info, r.validation_result.num, r.validation_result.den, r.loop_count)

\* state_manager.save_state(chatId, "main_pipeline", {...})
SaveStateStep ==
    /\ run.pc = "save"
    /\ \E outcome \in SaveOutcomes :
          s_files' = SaveState(s_files, run.req.chat, "main_pipeline",
                               PipelineState(run), outcome)
    /\ run' = [run EXCEPT !.pc = "complete"]
    /\ r_trace' = Append(r_trace, Called("save_state"))
    /\ UNCHANGED <<busVars, monVars, svcVars, r_variant, r_runs, r_outcome, r_attempts, r_mark,
                   orchVars, chkVars, curVars>>

\* publish pipeline.complete and return the result
Complete ==
    /\ run.pc = "complete"
    /\ b_history' = Publish(b_history,
           MessageOf("pipeline.complete", "", run.loop_count, run.req.chat))
    /\ r_outcome' = ReturnOutcome
    /\ run' = Ended("done")
    /\ r_trace' = Append(r_trace, Called("pipeline.complete"))
    /\ UNCHANGED <<b_max_history, monVars, s_files, svcVars, r_variant, r_runs, r_attempts, r_mark,
                   orchVars, chkVars, curVars>>

\* a call inside the try block raises: except Exception as e
Except ==
    /\ run.pc \in RaisePoints
    /\ m_errors' = RecordError(m_errors, "main_pipeline", run.req.chat)
    /\ r_outcome' = ErrorOutcome
    /\ run' = Ended("failed")
    /\ r_trace' = Append(r_trace, Called("record_error"))
    /\ UNCHANGED <<busVars, m_max_metrics, m_metrics, monHist, s_files, svcVars, r_variant, r_runs, r_attempts,
                   r_mark, orchVars, chkVars, curVars>>

\* the steps of a call that has started
RunStep ==
    \/ LoopEnter
    \/ LoopExit
    \/ KeywordsReturn
    \/ SearchReturn
    \/ PeopleReturn
    \/ Attach
    \/ BuildReturn
    \/ CheckStep
    \/ Retry
    \/ NoRetry
    \/ GenerateStep
    \/ ReflectStep
    \/ CurateStep
    \/ RecordPipeline
    \/ SaveStateStep
    \/ Complete
    \/ Except

Next ==
    \/ RunStart
    \/ LoopEnter
    \/ LoopExit
    \/ KeywordsReturn
    \/ SearchReturn
    \/ PeopleReturn
    \/ Attach
    \/ BuildReturn
    \/ CheckStep
    \/ Retry
    \/ NoRetry
    \/ GenerateStep
    \/ ReflectStep
    \/ CurateStep
    \/ RecordPipeline
    \/ SaveStateStep
    \/ Complete
    \/ Except

\* the service serving the requests of the end-to-end scenario
NextScenario ==
    \/ ScenarioStart
    \/ LoopEnter
    \/ LoopExit
    \/ KeywordsReturn
    \/ SearchReturn
    \/ PeopleReturn
    \/ Attach
    \/ BuildReturn
    \/ CheckStep
    \/ Retry
    \/ NoRetry
    \/ GenerateStep
    \/ ReflectStep
    \/ CurateStep
    \/ RecordPipeline
    \/ SaveStateStep
    \/ Complete
    \/ Except

(***************************************************************************)
(* Control loop: properties                                                *)
(***************************************************************************)
\* the call returned its result dict (it did not take the error path)
Returned == run.pc = "done"

\* the call has left the ATTEMPT/GRADED/RETRY cycle
LoopExited ==
    run.pc \in {"generate", "reflect", "curate", "record", "save", "complete", "done"}

\* how often the run has made a call
CallCount(call) == Cardinality({k \in DOMAIN r_trace : r_trace[k].call = call})

\* the checker returned is_good = false on every attempt so far
AllBad == \A k \in DOMAIN r_attempts : ~r_attempts[k].verdict.is_good

\* attempt k is the first whose verdict is good
FirstGood(k) ==
    /\ k \in DOMAIN r_attempts
    /\ r_attempts[k].verdict.is_good
    /\ \A j \in 1..(k - 1) : ~r_attempts[j].verdict.is_good

RunEnded == run.pc \in {"done", "failed"}

\* C1: in a run in which the checker returns is_good = false on every
\* attempt, exactly max_retries (3) attempts are performed, the returned
\* attempts_used is max_retries and the returned verdict has is_good = false;
\* and the run terminates.
C1_RetryBound ==
    /\ [](  (Returned /\ AllBad) =>
               /\ Len(r_attempts) = MaxLoops
               /\ CallCount("attempt") = MaxLoops
               /\ r_outcome.validation.loops_executed = MaxLoops
               /\ ~r_outcome.validation.is_good )
    /\ [](  (AllBad /\ ~RunEnded) => CallCount("attempt") <= MaxLoops )
    /\ ( (run.pc = "graded" /\ AllBad) ~> RunEnded )

C1_Witness ==
    /\ Returned
    /\ AllBad
    /\ r_outcome.validation.loops_executed = MaxLoops

\* C2: if attempt k < max_retries is the first with a good verdict, no
\* attempt k+1 is started, the returned attempts_used is k and the returned
\* final text and verdict are those of attempt k.
C2_EarlyExit ==
    \A k \in 1..(MaxLoops - 1) :
        FirstGood(k) =>
            /\ Len(r_attempts) = k
            /\ CallCount("attempt") = k
            /\ Returned =>
                  /\ r_outcome.validation.loops_executed = k
                  /\ r_outcome.content = r_attempts[k].content
                  /\ r_outcome.validation =
                        ValidationOf(r_attempts[k].verdict, k,
                                     r_outcome.validation.optimization_history)
                  /\ r_outcome.validation.is_good

C2_Witness ==
    /\ Returned
    /\ FirstGood(2)
    /\ r_outcome.validation.loops_executed = 2

C4_NeverRaisesPastBoundary ==
    run.pc = "failed" =>
        /\ Len(m_errors) = r_mark + 1
        /\ m_errors[Len(m_errors)] = [agent |-> "main_pipeline", chat |-> run.req.chat]
        /\ r_outcome.kind = "returned"
        /\ "error" \in r_outcome.fields
        /\ r_outcome.chatId = run.req.chat

\* the calls of the run after its last check
AfterLastCheck ==
    LET checks == {k \in DOMAIN r_trace : r_trace[k].call = "check"}
        last   == CHOOSE k \in checks : \A j \in checks : j <= k
    IN IF checks = {} THEN <<>> ELSE SubSeq(r_trace, last + 1, Len(r_trace))

CallsOf(trace) == [k \in DOMAIN trace |-> trace[k].call]

\* the failed attempts that are not the last one allowed
RetriedAttempts ==
    {n \in DOMAIN r_attempts : ~r_attempts[n].verdict.is_good /\ n < MaxLoops}

\* the attempt just graded has its RETRY transition still ahead
RetryDue == run.pc = "graded" /\ ~run.is_good /\ run.loop_count < MaxLoops

RetriesMade == Cardinality(RetriedAttempts) - (IF RetryDue THEN 1 ELSE 0)

\* C28: a validation.failed event is published and generate-then-optimize is
\* called exactly for the attempts n that fail with n < max_retries (3), with
\* retry number n, and never after the last attempt; when the run returns,
\* the numbers of validation.failed events and of optimize calls and the
\* length of optimization_history all equal attempts_used - 1.
C28_RetryTransition ==
    /\ run.pc \notin {"idle", "done", "failed"} =>
          /\ CallCount("validation.failed") = RetriesMade
          /\ CallCount("optimize") = RetriesMade
          /\ Len(run.optimization_history) = RetriesMade
          /\ \A j \in 1..Len(run.optimization_history) :
                /\ run.optimization_history[j].loop = j
                /\ j \in RetriedAttempts
                /\ run.optimization_history[j].feedback = r_attempts[j].verdict.feedback
          /\ \A k \in DOMAIN r_trace :
                r_trace[k].call = "optimize" =>
                    /\ r_trace[k - 1].call = "generate"
                    /\ r_trace[k - 2].call = "validation.failed"
    /\ Returned =>
          LET used == r_outcome.validation.loops_executed
          IN /\ CallCount("validation.failed") = used - 1
             /\ CallCount("optimize") = used - 1
             /\ Len(r_outcome.validation.optimization_history) = used - 1

\* C28 witness: a returned run of three failed attempts with two retries
C28_Witness ==
    /\ Returned
    /\ r_outcome.validation.loops_executed = MaxLoops
    /\ ~r_outcome.validation.is_good
    /\ CallCount("optimize") = MaxLoops - 1
    /\ Len(r_outcome.validation.optimization_history) = MaxLoops - 1

\* C5: in every run that does not take the error path, whatever the final
\* verdict, after the retry cycle generate, reflect and curate are each
\* invoked exactly once, in that order, on the last attempt's intermediate
\* results and response, before the state is saved and before
\* pipeline.complete is published.
C5_LearnedAlways ==
    Returned =>
        LET tail == AfterLastCheck
            last == r_attempts[Len(r_attempts)]
        IN /\ CallsOf(tail) = << "generate", "reflect", "curate", "record_execution",
                                 "save_state", "pipeline.complete" >>
           /\ tail[1].intermediate = last.intermediate
           /\ tail[2].response = last.content
           /\ c_last = "curate"
           /\ c_deltas = CurateDeltas(
                  Reflect(Generate(run.req, last.info, last.results,
                                   last.tacit_results, last.intermediate),
                          last.content),
                  c_clock - Len(c_deltas))
           /\ b_history[Len(b_history)].topic = "pipeline.complete"

C5_Witness ==
    /\ Returned
    /\ ~r_outcome.validation.is_good
    /\ Len(r_attempts) = MaxLoops
    /\ c_deltas # <<>>

\* C18: when attempt n fails and n < max_retries, the guidance optimize()
\* returned and the refreshed context instructions are among the inputs of
\* the domain steps of attempt n+1, which therefore differ from the inputs
\* of attempt n
C18_GuidanceFedBack ==
    \A n \in 1..(Len(r_attempts) - 1) :
        (~r_attempts[n].verdict.is_good /\ n < MaxLoops) =>
            /\ r_attempts[n + 1].inputs.guidance = r_attempts[n + 1].guidance
            /\ r_attempts[n + 1].inputs # r_attempts[n].inputs

\* attempt k selected a person without a contact value, so the text built
\* from it has no contact information
LacksContact(k) == ~r_attempts[k].intermediate.person.contact

InSeq(x, seq) == \E k \in 1..Len(seq) : seq[k] = x

\* the insights the final reflect() draws from attempt k of the ended run
FinalInsights(k) ==
    Reflect(Generate(run.req, r_attempts[k].info, r_attempts[k].results,
                     r_attempts[k].tacit_results, r_attempts[k].intermediate),
            r_attempts[k].content)

\* the first part of the scenario: attempt 1 lacks the contact, its verdict
\* is not good and names the contact, and optimize() answers with the
\* person_selection focus area
ScenarioFirstAttempt ==
    /\ ~r_attempts[1].verdict.is_good
    /\ InSeq("contact missing", r_attempts[1].verdict.feedback)
    /\ Len(r_outcome.validation.optimization_history) >= 1
    /\ InSeq("person_selection", r_outcome.validation.optimization_history[1].optimization)

\* attempt 2 of the ended run was graded good
SecondGood == Len(r_attempts) >= 2 /\ r_attempts[2].verdict.is_good

FinalVerdict == r_attempts[Len(r_attempts)].verdict

\* the last call the run made
LastCall(trace) == IF trace = <<>> THEN "" ELSE trace[Len(trace)].call

\* the file of the State Record of (session of the run, main_pipeline)
PipelineFile(files) == files[FileName(run.req.chat, "main_pipeline")]

PipelineMetrics(metrics) == metrics["main_pipeline"]

\* C32: in every run that returns, the main_pipeline metric is recorded
\* exactly once with success = the final is_good; the State Record is saved
\* once, and the record that save writes holds attempts used = the number
\* of attempts performed and the score of the final verdict;
\* pipeline.complete is published exactly once, right after the save, as
\* the last call and the last event of the run.
C32_Persisted ==
    /\ [](Returned =>
            /\ CallCount("record_execution") = 1
            /\ CallCount("save_state") = 1
            /\ CallCount("pipeline.complete") = 1
            /\ PipelineMetrics(m_metrics) # <<>>
            /\ PipelineMetrics(m_metrics)[Len(PipelineMetrics(m_metrics))].success
                   = FinalVerdict.is_good
            /\ LastCall(r_trace) = "pipeline.complete"
            /\ r_trace[Len(r_trace) - 1].call = "save_state"
            /\ b_history[Len(b_history)]
                   = MessageOf("pipeline.complete", "", Len(r_attempts), run.req.chat))
    /\ [][ (r_trace' # r_trace /\ LastCall(r_trace') = "save_state"
              /\ s_files' # s_files /\ PipelineFile(s_files').valid) =>
             /\ PipelineFile(s_files').state.present
             /\ PipelineFile(s_files').state.loops_required = Len(r_attempts)
             /\ PipelineFile(s_files').state.num = FinalVerdict.num
             /\ PipelineFile(s_files').state.den = FinalVerdict.den ]_vars
    /\ [][ PipelineMetrics(m_metrics') # PipelineMetrics(m_metrics) =>
             /\ LastCall(r_trace') = "record_execution"
             /\ PipelineMetrics(m_metrics')
                   = Append(PipelineMetrics(m_metrics),
                            RecordOf(Elapsed, FinalVerdict.is_good)) ]_vars

\* C32 witness: a run that used every attempt and failed the last one, has
\* returned with its State Record on file
C32_Witness ==
    /\ Returned
    /\ Len(r_attempts) = MaxLoops
    /\ ~FinalVerdict.is_good
    /\ PipelineFile(s_files).valid
    /\ PipelineFile(s_files).state.loops_required = MaxLoops
    /\ ~PipelineMetrics(m_metrics)[1].success

\* C40: every run that published pipeline.start ends with exactly one of
\* (a) a pipeline.complete event together with one main_pipeline Execution
\* Metric and one State save, or (b) one main_pipeline Error Record; never
\* both and never neither; and a run that ends in (b) leaves the State
\* Record as it was (the files change in a save_state call only, and a run
\* that ends in (b) has made none).
C40_ExclusiveOutcome ==
    /\ [](run.pc \in {"done", "failed"} => r_trace[1].call = "pipeline.start")
    /\ [](Returned =>
            /\ CallCount("pipeline.complete") = 1
            /\ CallCount("record_execution") = 1
            /\ CallCount("save_state") = 1
            /\ CallCount("record_error") = 0
            /\ Len(m_errors) = r_mark)
    /\ [](run.pc = "failed" =>
            /\ CallCount("record_error") = 1
            /\ Len(m_errors) = r_mark + 1
            /\ m_errors[Len(m_errors)].agent = "main_pipeline"
            /\ CallCount("pipeline.complete") = 0
            /\ CallCount("record_execution") = 0
            /\ CallCount("save_state") = 0)
    /\ [][s_files' # s_files =>
            (r_trace' # r_trace /\ LastCall(r_trace') = "save_state")]_vars
    /\ [][PipelineMetrics(m_metrics') # PipelineMetrics(m_metrics) =>
            (r_trace' # r_trace /\ LastCall(r_trace') = "record_execution")]_vars

\* C40 witness: a run that ended in the except clause on a retry, after
\* optimize() was called, with the one Error Record and no save
C40_Witness ==
    /\ run.pc = "failed"
    /\ CallCount("optimize") >= 1
    /\ CallCount("record_error") = 1
    /\ CallCount("save_state") = 0

(***************************************************************************)
(* Communication bus (agent_bus.py): direct callers                        *)
(***************************************************************************)
\* capacities the bus is constructed with: 0..MaxBusCap
MaxBusCap == 2

\* subscriptions held at one time, over all topics
MaxHandlers == 3

\* messages published between two clear_history calls
MaxPublished == 3

\* the callbacks a caller can subscribe: a coroutine function whose
\* coroutine completes, one whose coroutine raises, a callable that raises
\* when called, and a plain function that returns None
Handlers == {"coroutine_ok", "coroutine_fails", "raises_on_call", "plain_function"}

Subscriptions == LET RECURSIVE Total(_)
                     Total(ts) == IF ts = {} THEN 0
                                  ELSE LET t == CHOOSE x \in ts : TRUE
                                       IN Len(b_subscribers[t]) + Total(ts \ {t})
                 IN Total(BusTopics)

\* self.subscribers[topic].remove(callback): the first occurrence goes
RemoveFirst(seq, x) ==
    LET i == CHOOSE j \in 1..Len(seq) : seq[j] = x /\ \A l \in 1..(j - 1) : seq[l] # x
    IN SubSeq(seq, 1, i - 1) \o SubSeq(seq, i + 1, Len(seq))

\* try: tasks.append(callback(message)) except Exception: log -- what the
\* call of one callback leaves: an exception caught ("raised"), None
\* appended to tasks after the function ran ("returned"), or a coroutine
\* appended to tasks
Invoke(handler) ==
    CASE handler = "raises_on_call" -> "raised"
      [] handler = "plain_function" -> "returned"
      [] OTHER                      -> "coroutine"

\* asyncio.gather(*tasks, return_exceptions=True) wraps its arguments in
\* list order: a coroutine becomes a scheduled task ("pending"); at the
\* first argument that is no awaitable it raises TypeError, and the
\* coroutines after that one are never scheduled ("dropped")
GatherStart(status) ==
    LET bad == { i \in 1..Len(status) : status[i] = "returned" }
    IN [i \in 1..Len(status) |->
            IF status[i] # "coroutine" THEN status[i]
            ELSE IF \E j \in bad : j < i THEN "dropped" ELSE "pending"]

\* a scheduled task runs its coroutine to the end
Finish(handler) == IF handler = "coroutine_fails" THEN "failed" ELSE "done"

Pending(pub) == { i \in 1..Len(pub.status) : pub.status[i] = "pending" }

\* the direct callers are taken one call at a time: the callbacks of a
\* publish() are all called before its first await, so a call made while
\* it waits acts as one made after it
BusIdle == b_pub.pc = "idle"

\* subscribe(topic, callback)
Subscribe ==
    \E t \in BusTopics, h \in Handlers :
        /\ BusIdle
        /\ Subscriptions < MaxHandlers
        /\ b_subscribers' = [b_subscribers EXCEPT ![t] = Append(@, h)]
        /\ UNCHANGED <<orchVars, chkVars, curVars, busVars, monVars, b_published, b_pub,
                       s_files, s_prev, s_last, loopVars>>

\* unsubscribe(topic, callback): if the callback is in the topic's list,
\* list.remove(callback)
Unsubscribe ==
    \E t \in BusTopics, h \in Handlers :
        /\ BusIdle
        /\ b_subscribers' =
              IF \E j \in 1..Len(b_subscribers[t]) : b_subscribers[t][j] = h
              THEN [b_subscribers EXCEPT ![t] = RemoveFirst(@, h)]
              ELSE b_subscribers
        /\ UNCHANGED <<orchVars, chkVars, curVars, busVars, monVars, b_published, b_pub,
                       s_files, s_prev, s_last, loopVars>>

\* publish(message) up to its await: store the message, trim the history,
\* call every callback of the topic, hand the tasks to asyncio.gather
PublishCall ==
    \E t \in BusTopics :
        /\ BusIdle
        /\ Len(b_published) < MaxPublished
        /\ LET message == MessageOf(t, "", Len(b_published) + 1, "")
               called  == [i \in 1..Len(b_subscribers[t]) |-> Invoke(b_subscribers[t][i])]
               tasks   == { i \in 1..Len(called) : called[i] # "raised" }
               status  == GatherStart(called)
           IN /\ b_history' = Publish(b_history, message)
              /\ b_published' = Append(b_published, message)
              /\ b_pub' = PubOf(IF tasks = {} THEN "returned"
                                ELSE IF \E i \in tasks : called[i] = "returned"
                                     THEN "raised" ELSE "gather",
                                t, b_subscribers[t],
                                IF tasks = {} THEN called ELSE status)
        /\ UNCHANGED <<orchVars, chkVars, curVars, b_max_history, monVars, b_subscribers,
                       s_files, s_prev, s_last, loopVars>>

\* the event loop runs one scheduled task to its end
TaskRun ==
    \E i \in Pending(b_pub) :
        /\ b_pub' = [b_pub EXCEPT !.status[i] = Finish(b_pub.handlers[i])]
        /\ UNCHANGED <<orchVars, chkVars, curVars, busVars, monVars, b_subscribers,
                       b_published, s_files, s_prev, s_last, loopVars>>

\* every task has ended: gather returns the results and exceptions, and
\* publish returns
PublishReturn ==
    /\ b_pub.pc = "gather"
    /\ Pending(b_pub) = {}
    /\ b_pub' = [b_pub EXCEPT !.pc = "returned"]
    /\ UNCHANGED <<orchVars, chkVars, curVars, busVars, monVars, b_subscribers,
                   b_published, s_files, s_prev, s_last, loopVars>>

\* the caller of publish() goes on, with the result or the exception, once
\* the tasks publish() scheduled have run
PublishEnd ==
    /\ b_pub.pc \in {"returned", "raised"}
    /\ Pending(b_pub) = {}
    /\ b_pub' = NoPub
    /\ UNCHANGED <<orchVars, chkVars, curVars, busVars, monVars, b_subscribers,
                   b_published, s_files, s_prev, s_last, loopVars>>

\* clear_history()
ClearHistory ==
    /\ BusIdle
    /\ b_history # <<>>
    /\ b_history' = <<>>
    /\ b_published' = <<>>
    /\ UNCHANGED <<orchVars, chkVars, curVars, b_max_history, monVars, b_subscribers,
                   b_pub, s_files, s_prev, s_last, loopVars>>

BusNext ==
    \/ Subscribe
    \/ Unsubscribe
    \/ PublishCall
    \/ TaskRun
    \/ PublishReturn
    \/ PublishEnd
    \/ ClearHistory

(***************************************************************************)
(* Communication bus: properties                                           *)
(***************************************************************************)
\* C11: with history capacity C, once more than C messages were published
\* without a clear_history the history is exactly the last C of them in
\* publication order, and after every publish it holds at most C messages
C11_Eviction ==
    LET n == Len(b_published)
    IN /\ n > b_max_history =>
              b_history = SubSeq(b_published, n - b_max_history + 1, n)
       /\ n > 0 => Len(b_history) <= b_max_history

\* the publish() call has ended, normally or with an exception
PublishEnded == b_pub.pc \in {"returned", "raised"}

\* the callbacks of the last publish() that failed
FailedHandlers == { i \in 1..Len(b_pub.status) : b_pub.status[i] \in {"raised", "failed"} }

\* C12: when a handler of the topic fails, publish still returns normally
\* and every other handler of the topic was invoked and ran to completion
C12_HandlerIsolation ==
    (PublishEnded /\ FailedHandlers # {}) =>
        /\ b_pub.pc = "returned"
        /\ \A j \in 1..Len(b_pub.status) :
              j \notin FailedHandlers => b_pub.status[j] \in {"done", "returned"}

\* how many times handler h is in a topic's list
Registrations(seq, h) == Cardinality({ j \in 1..Len(seq) : seq[j] = h })

\* a topic's list with every registration of h left out
Others(seq, h) == SelectSeq(seq, LAMBDA x : x # h)

\* C39: after unsubscribe(topic, h), whatever subscribe and unsubscribe
\* calls came before, a later publish on topic does not invoke h (publish
\* invokes the handlers in the topic's list and no others); the
\* subscriptions of every other handler and of every other topic are
\* unchanged.
C39_Unsubscribe ==
    /\ [](~BusIdle => b_pub.handlers = b_subscribers[b_pub.topic])
    /\ [][\A t \in BusTopics, h \in Handlers :
            Registrations(b_subscribers'[t], h) < Registrations(b_subscribers[t], h) =>
                /\ Registrations(b_subscribers'[t], h) = 0
                /\ Others(b_subscribers'[t], h) = Others(b_subscribers[t], h)
                /\ \A u \in BusTopics \ {t} : b_subscribers'[u] = b_subscribers[u]]_vars

\* what a callback that has finished or failed has become
Settled == {"done", "failed", "raised", "returned"}

\* C34: publish(m) hands control back to its caller only after every
\* handler that was subscribed to m.topic when it was called has finished or
\* failed, and it invokes the handlers of that topic only.
C34_SyncPoint ==
    PublishEnded =>
        /\ b_pub.handlers = b_subscribers[b_pub.topic]
        /\ Len(b_pub.status) = Len(b_pub.handlers)
        /\ \A j \in 1..Len(b_pub.status) : b_pub.status[j] \in Settled

(***************************************************************************)
(* State store (state_manager.py): direct callers                          *)
(***************************************************************************)
\* the values the direct callers save
MaxValue == 2

StateValues == { StateOf(v, 0, 0, 0) : v \in 1..MaxValue }

\* save_state(chat_id, agent_name, state)
SaveCall ==
    \E k \in StateKeys, state \in StateValues, outcome \in SaveOutcomes :
        /\ s_files' = SaveState(s_files, k[1], k[2], state, outcome)
        /\ s_prev' = s_files
        /\ s_last' = StoreCall("save_state", k[1], k[2], outcome, NoState)
        /\ UNCHANGED <<orchVars, chkVars, curVars, busVars, monVars, b_subscribers,
                       b_published, b_pub, loopVars>>

\* load_state(chat_id, agent_name)
LoadCall ==
    \E k \in StateKeys, read_ok \in BOOLEAN :
        /\ s_prev' = s_files
        /\ s_last' = StoreCall("load_state", k[1], k[2],
                               IF read_ok THEN "ok" ELSE "read_fails",
                               LoadState(s_files, k[1], k[2], read_ok))
        /\ UNCHANGED <<orchVars, chkVars, curVars, busVars, monVars, b_subscribers,
                       b_published, b_pub, loopVars, s_files>>

\* clear_state(chat_id)
ClearStateCall ==
    \E chat \in SessionKeys \cup Chats :
        \E deleted \in SUBSET Globbed(s_files, chat) :
            /\ s_files' = ClearState(s_files, deleted)
            /\ s_prev' = s_files
            /\ s_last' = StoreCall("clear_state", chat, "",
                                   IF deleted = Globbed(s_files, chat)
                                   THEN "ok" ELSE "unlink_fails",
                                   NoState)
            /\ UNCHANGED <<orchVars, chkVars, curVars, busVars, monVars, b_subscribers,
                           b_published, b_pub, loopVars>>

StoreNext ==
    \/ SaveCall
    \/ LoadCall
    \/ ClearStateCall

(***************************************************************************)
(* Session state across runs (run_agents, DELETE /state/{chatId})          *)
(***************************************************************************)
\* calls of run_agents served by one process
MaxSessionRuns == 2

\* requests of two sessions, the id of one being a prefix of the other's
SessionRequests == { RequestOf(chat, 12, "HR") : chat \in SessionKeys }

SessionStart == \E req \in SessionRequests : StartRun(req, MaxSessionRuns)

\* DELETE /state/{chatId}, by a client between two runs: clear_state(chatId);
\* at most one such request is made
ClearSession ==
    /\ run.pc \in {"idle", "done", "failed"}
    /\ s_last = NoStoreCall
    /\ ClearStateCall

NextSessions ==
    \/ SessionStart
    \/ ClearSession
    \/ RunStep

\* the run in progress has loaded its state
Started == run.pc \notin {"idle", "done", "failed"}

\* an earlier run of the session returned (its pipeline.complete is in the
\* history while the run in progress has published none yet)
CompletedBefore(chat) ==
    \E k \in DOMAIN b_history :
        b_history[k].topic = "pipeline.complete" /\ b_history[k].chat = chat

\* an earlier run of the session ended in the except clause
FailedBefore(chat) == \E k \in DOMAIN m_errors : m_errors[k].chat = chat

\* clear_state(chat) has been called
Cleared(chat) == s_last.op = "clear_state" /\ s_last.chat = chat

\* the file of (chat, main_pipeline) holds a State Record
HasRecord(files, chat) ==
    /\ files[FileName(chat, "main_pipeline")].exists
    /\ files[FileName(chat, "main_pipeline")].valid

\* C33: each run publishes pipeline.start and then loads the State Record
\* of (session, main_pipeline) exactly once, before the first attempt; the
\* returned flag previous_state_loaded is true exactly when such a record
\* existed at that moment; so the run that follows a returned run of the
\* same session reports true unless clear_state(session) was called in
\* between, and a session whose earlier runs all ended in the error path
\* reports false.
C33_SessionState ==
    /\ [](Started =>
            /\ Len(r_trace) >= 2
            /\ r_trace[1].call = "pipeline.start"
            /\ r_trace[2].call = "load_state"
            /\ CallCount("load_state") = 1
            /\ (CompletedBefore(run.req.chat) /\ ~Cleared(run.req.chat))
                  => run.previous_state
            /\ (FailedBefore(run.req.chat) /\ ~CompletedBefore(run.req.chat))
                  => ~run.previous_state)
    /\ [][ (~Started /\ Started') =>
              run'.previous_state = HasRecord(s_files, run'.req.chat) ]_vars
    /\ [][ (Started /\ run'.pc = "done") =>
              r_outcome'.previous_state_loaded = run.previous_state ]_vars

(***************************************************************************)
(* State store: properties                                                 *)
(***************************************************************************)
\* what load_state returns for a key when reading succeeds
Stored(files, k) == LoadState(files, k[1], k[2], TRUE)

\* C13: a save to one (session key, component name) pair never changes
\* what load_state returns for a different pair
C13_KeyIsolation ==
    s_last.op = "save_state" =>
        \A q \in StateKeys :
            q # <<s_last.chat, s_last.agent_name>> =>
                Stored(s_files, q) = Stored(s_prev, q)

\* C14: a save_state that fails raises nothing and is a no-op: the
\* following load_state returns the value stored before it; a load_state
\* whose read fails returns absent
C14_FailedSaveIsNoOp ==
    /\ (s_last.op = "save_state" /\ s_last.outcome # "ok") =>
            Stored(s_files, <<s_last.chat, s_last.agent_name>>)
                = Stored(s_prev, <<s_last.chat, s_last.agent_name>>)
    /\ (s_last.op = "load_state" /\ s_last.outcome = "read_fails") =>
            s_last.returned = NoState

\* C15: clear_state(s) removes every record of session s and leaves the
\* records of every other session as they were
C15_ClearStateFrame ==
    (s_last.op = "clear_state" /\ s_last.outcome = "ok") =>
        \A k \in StateKeys :
            IF k[1] = s_last.chat
            THEN Stored(s_files, k) = NoState
            ELSE Stored(s_files, k) = Stored(s_prev, k)

(***************************************************************************)
(* Monitor: direct callers (monitoring.py, the /monitoring endpoints)      *)
(***************************************************************************)
\* max_metrics of the monitors that are constructed
MaxMonCap == 2

\* record_execution and record_error calls made on one monitor
MaxRecorded == 3

\* the limits get_errors is called with
MaxLimit == 2

\* the step names, durations (ms) and error contexts of the direct callers;
\* "" is the agent_name of a call without one (None)
MonSteps == {"info_finder", "checker_agent"}

Durations == {1, 2}

MonContexts == {"c1", "c2"}

nonMonVars == <<orchVars, chkVars, curVars, busVars, s_files, svcVars, loopVars>>

\* [e for e in errors if e["agent"] == agent_name]
ErrorsOf(errors, agent_name) == SelectSeq(errors, LAMBDA e : e.agent = agent_name)

\* get_errors(agent_name, limit): errors[-limit:] of the filtered list
GetErrors(errors, agent_name, limit) ==
    TailSlice(IF agent_name # "" THEN ErrorsOf(errors, agent_name) ELSE errors, limit)

\* clear_metrics(agent_name): del self.metrics[agent_name], or metrics.clear()
ClearMetrics(metrics, agent_name) ==
    [a \in DOMAIN metrics |-> IF agent_name = "" \/ a = agent_name THEN <<>> ELSE metrics[a]]

\* the record_execution calls for one step name, in arrival order
RecordedFor(recorded, agent_name) ==
    LET own == SelectSeq(recorded, LAMBDA r : r.agent = agent_name)
    IN [k \in 1..Len(own) |-> own[k].record]

RecordExecutionCall ==
    \E a \in MonSteps, d \in Durations, success \in BOOLEAN :
        /\ Len(m_recorded) + Len(m_raised) < MaxRecorded
        /\ m_metrics' = RecordExecution(m_metrics, a, d, success)
        /\ m_recorded' = Append(m_recorded, [agent |-> a, record |-> RecordOf(d, success)])
        /\ m_call' = MonCall("record_execution", a, 0, <<>>)
        /\ UNCHANGED <<m_max_metrics, m_errors, m_raised, nonMonVars>>

RecordErrorCall ==
    \E a \in MonSteps, context \in MonContexts :
        /\ Len(m_recorded) + Len(m_raised) < MaxRecorded
        /\ m_errors' = RecordError(m_errors, a, context)
        /\ m_raised' = Append(m_raised, [agent |-> a, chat |-> context])
        /\ m_call' = MonCall("record_error", a, 0, <<>>)
        /\ UNCHANGED <<m_max_metrics, m_metrics, m_recorded, nonMonVars>>

GetErrorsCall ==
    \E a \in MonSteps \cup {""}, limit \in 0..MaxLimit :
        /\ m_call' = MonCall("get_errors", a, limit, GetErrors(m_errors, a, limit))
        /\ UNCHANGED <<m_max_metrics, m_metrics, m_errors, m_recorded, m_raised, nonMonVars>>

ClearMetricsCall ==
    \E a \in MonSteps \cup {""} :
        /\ m_recorded # <<>>
        /\ m_metrics' = ClearMetrics(m_metrics, a)
        /\ m_recorded' = SelectSeq(m_recorded, LAMBDA r : a # "" /\ r.agent # a)
        /\ m_call' = MonCall("clear_metrics", a, 0, <<>>)
        /\ UNCHANGED <<m_max_metrics, m_errors, m_raised, nonMonVars>>

MonNext ==
    \/ RecordExecutionCall
    \/ RecordErrorCall
    \/ GetErrorsCall
    \/ ClearMetricsCall

\* C22: each step name's metric buffer holds at most max_metrics records,
\* exactly the most recent ones recorded for that step, in arrival order,
\* whatever was recorded for other steps; the error buffer holds the most
\* recent max_metrics errors of all steps.
C22_BoundedBuffers ==
    /\ \A a \in MonSteps :
          m_metrics[a] = MostRecent(RecordedFor(m_recorded, a), m_max_metrics)
    /\ m_errors = MostRecent(m_raised, m_max_metrics)

Reverse(seq) == [k \in 1..Len(seq) |-> seq[Len(seq) + 1 - k]]

\* C23: get_errors(step_name, limit) returns the limit most recent retained
\* errors (of step_name when given), the newest one first.
C23_RecentFirst ==
    m_call.op = "get_errors" =>
        m_call.returned =
            Reverse(MostRecent(IF m_call.agent_name # ""
                               THEN ErrorsOf(m_errors, m_call.agent_name)
                               ELSE m_errors, m_call.limit))

(***************************************************************************)
(* Monitor: get_statistics                                                 *)
(***************************************************************************)
\* the longest metric buffer statistics are asked for
MaxWindow == 120

\* the percentiles _calculate_stats asks for (0.5, 0.95, 0.99), in percent;
\* int(n * 0.5), int(n * 0.95) and int(n * 0.99) in double arithmetic equal
\* (n * 50) \div 100, (n * 95) \div 100 and (n * 99) \div 100 for every
\* n up to 20000
Percentiles == {50, 95, 99}

Ascending(values) == SortSeq(values, LAMBDA x, y : x < y)

\* a _percentile that indexes the list as it was given
PercentileUnsorted(values, percentile) ==
    IF values = <<>> THEN 0
    ELSE values[Min((Len(values) * percentile) \div 100, Len(values) - 1) + 1]

\* _percentile(values, percentile): sequences are 1-based, lists 0-based
Percentile(values, percentile) ==
    IF values = <<>> THEN 0
    ELSE LET sorted_values == Ascending(values)
             index == (Len(sorted_values) * percentile) \div 100
         IN sorted_values[Min(index, Len(sorted_values) - 1) + 1]

RECURSIVE Sum(_, _)
Sum(values, k) == IF k = 0 THEN 0 ELSE Sum(values, k - 1) + values[k]

Values(seq) == { seq[k] : k \in 1..Len(seq) }

\* the statistics of an empty buffer or window
NoStats == [ count |-> 0 ]

\* the records with timestamp >= time.time() - time_window_seconds: the
\* `recent` last ones, as timestamps do not decrease along the buffer;
\* recent = -1 is a call without a time window (None or 0)
InTimeWindow(metrics, recent) ==
    IF recent = -1 THEN metrics
    ELSE SubSeq(metrics, Len(metrics) - recent + 1, Len(metrics))

\* _calculate_stats(agent_name, metrics, time_window_seconds);
\* success_rate = successes / count, avg_time_ms = total / count
CalculateStats(metrics, recent) ==
    IF metrics = <<>> \/ InTimeWindow(metrics, recent) = <<>> THEN NoStats
    ELSE LET window == InTimeWindow(metrics, recent)
             times  == [k \in 1..Len(window) |-> window[k].execution_time_ms]
         IN [ count     |-> Len(window),
              successes |-> Cardinality({k \in 1..Len(window) : window[k].success}),
              total     |-> Sum(times, Len(times)),
              min       |-> CHOOSE v \in Values(times) : \A u \in Values(times) : v <= u,
              max       |-> CHOOSE v \in Values(times) : \A u \in Values(times) : v >= u,
              p50       |-> Percentile(times, 50),
              p95       |-> Percentile(times, 95),
              p99       |-> Percentile(times, 99) ]

\* buffers of n records: durations 10, 20, ..., 10 n recorded in ascending
\* or descending order, or durations 10, 20, 30 in turn
Shapes == {"ascending", "descending", "repeating"}

Buffer(shape, n) ==
    [k \in 1..n |->
        RecordOf(CASE shape = "ascending"  -> 10 * k
                   [] shape = "descending" -> 10 * (n + 1 - k)
                   [] shape = "repeating"  -> 10 * ((k % 3) + 1),
                 k % 2 = 0)]

\* the numbers of records a time window can hold, for a buffer of n
Recents(n) == {-1, 0, (n + 1) \div 2, n}

\* GET /monitoring/stats?agent=a&time_window=...
GetStatisticsCall ==
    \E a \in MonSteps : \E recent \in Recents(Len(m_metrics[a])) :
        /\ m_call' = MonCall("get_statistics", a, recent, CalculateStats(m_metrics[a], recent))
        /\ UNCHANGED <<m_max_metrics, m_metrics, m_errors, m_recorded, m_raised, nonMonVars>>

\* the durations get_statistics last worked on
LastWindow ==
    LET window == InTimeWindow(m_metrics[m_call.agent_name], m_call.limit)
    IN [k \in 1..Len(window) |-> window[k].execution_time_ms]

\* v is the element at 0-based index i of the ascending sort of values
IsAtRank(v, values, i) ==
    /\ v \in Values(values)
    /\ Cardinality({k \in 1..Len(values) : values[k] < v}) <= i
    /\ Cardinality({k \in 1..Len(values) : values[k] <= v}) > i

HasStats == m_call.op = "get_statistics" /\ m_call.returned.count > 0

\* C24: for a non-empty window of n durations each percentile p reported by
\* get_statistics is the element at index min(floor(n * p), n - 1) of the
\* ascending sort of the window, and p50 <= p95 <= p99 <= max.
C24_Percentiles ==
    HasStats =>
        LET r == m_call.returned
            n == Len(LastWindow)
            Rank(pct) == Min((n * pct) \div 100, n - 1)
        IN /\ n = r.count
           /\ IsAtRank(r.p50, LastWindow, Rank(50))
           /\ IsAtRank(r.p95, LastWindow, Rank(95))
           /\ IsAtRank(r.p99, LastWindow, Rank(99))
           /\ r.p50 <= r.p95 /\ r.p95 <= r.p99 /\ r.p99 <= r.max

\* C24 witness: statistics of the durations 100, 90, ..., 10
C24_Witness ==
    /\ HasStats
    /\ LastWindow = [k \in 1..10 |-> 10 * (11 - k)]
    /\ m_call.returned.p50 = 60
    /\ m_call.returned.p95 = 100
    /\ m_call.returned.max = 100

\* the patterns of the insights that pass the gate of curate()
Admitted(insights) ==
    IF insights.overall_score >= SuccessThreshold THEN insights.patterns ELSE <<>>

\* C31: the deltas curate(insights) returns are one successful_pattern item
\* per extracted pattern, tagged with the reflected score, when that score
\* is at least 0.7 and none when it is lower, followed by one
\* improvement_strategy item per suggestion whatever the score; the call
\* returns all of them even when pruning keeps fewer in the store.
C31_CurateGate ==
    c_last = "curate" =>
        LET pats == Admitted(c_insights)
            np   == Len(pats)
            ns   == Len(c_insights.suggestions)
        IN /\ Len(c_deltas) = np + ns
           /\ \A k \in 1..np :
                 /\ c_deltas[k].type = "successful_pattern"
                 /\ c_deltas[k].text = pats[k]
                 /\ c_deltas[k].score = c_insights.overall_score
           /\ \A k \in 1..ns :
                 /\ c_deltas[np + k].type = "improvement_strategy"
                 /\ c_deltas[np + k].text = c_insights.suggestions[k]

\* C31 witness: a curate() call whose score passed the gate, that returned a
\* pattern and a suggestion, and whose pruning kept fewer items than it
\* returned
C31_Witness ==
    /\ c_last = "curate"
    /\ c_insights.overall_score >= SuccessThreshold
    /\ Len(c_insights.patterns) >= 1
    /\ Len(c_insights.suggestions) >= 1
    /\ Len(c_store) < Len(c_deltas)

(***************************************************************************)
(* Context curator: two processes over one store file                      *)
(***************************************************************************)
\* calls each process makes in one behaviour
MaxSharedCalls == 2

\* a piece of the file's text: the opening `{"items": [`, one item, or the
\* closing `], "last_updated": ...}`
UnitOf(kind, item) == [ kind |-> kind, item |-> item ]

NoItem == ItemOf("", 0, "", 0, 0, <<>>, <<>>)

\* json.dump({'items': store, 'last_updated': ...}, f, indent=2): the text
TextOf(store) ==
    <<UnitOf("head", NoItem)>> \o [k \in 1..Len(store) |-> UnitOf("item", store[k])]
                              \o <<UnitOf("tail", NoItem)>>

\* the file after a process whose file position is 0 writes text and
\* closes: the text replaces what was there up to its own length
WriteAtStart(file, text) == text \o SubSeq(file, Len(text) + 1, Len(file))

\* the stores the file holds when the two processes start
SharedStores ==
    { <<>>, <<ItemOf("improvement_strategy", 0, "Integrate tacit knowledge", 0, 0,
                     <<>>, <<>>)>> }

\* _save_context_store up to open(ACE_CONTEXT_PATH, 'w'): the open
\* truncates the file, or fails and the except clause ends the save
OpenForSave(p, store, open_ok) ==
    /\ c_procs' = [c_procs EXCEPT ![p] =
                      ProcOf(store, IF open_ok THEN "opened" ELSE "idle", FALSE,
                             @.calls + 1)]
    /\ c_file' = IF open_ok THEN <<>> ELSE c_file
    /\ UNCHANGED c_writes

\* curate(insights) in process p, up to the open of the file
SharedCurate(p, insights, open_ok) ==
    LET deltas == CurateDeltas(insights, c_clock)
    IN /\ c_procs[p].pc = "idle"
       /\ c_procs[p].calls < MaxSharedCalls
       /\ OpenForSave(p, Prune(c_procs[p].store \o deltas, DefaultMaxContextItems),
                      open_ok)
       /\ c_clock' = c_clock + Len(deltas)
       /\ UNCHANGED <<c_max, c_store, c_disk, c_prev, c_deltas, c_last, c_instructions,
                      c_optimize, c_insights, nonCurVars>>

\* optimize(context, validation_feedback, intermediate, loop_count) in
\* process p, up to the open of the file
SharedOptimize(p, feedback, open_ok) ==
    LET item == ItemOf("optimization_attempt", c_clock + 1, "", 0, 1, feedback,
                       FocusAreas(feedback))
    IN /\ c_procs[p].pc = "idle"
       /\ c_procs[p].calls < MaxSharedCalls
       /\ OpenForSave(p, Append(c_procs[p].store, item), open_ok)
       /\ c_clock' = c_clock + 1
       /\ UNCHANGED <<c_max, c_store, c_disk, c_prev, c_deltas, c_last, c_instructions,
                      c_optimize, c_insights, nonCurVars>>

\* the rest of _save_context_store in process p: json.dump fills the
\* buffer, and leaving the `with` block writes it and closes the file
SharedWrite(p) ==
    /\ c_procs[p].pc = "opened"
    /\ c_file' = WriteAtStart(c_file, TextOf(c_procs[p].store))
    /\ c_procs' = [c_procs EXCEPT ![p].pc = "idle", ![p].saved = TRUE]
    /\ c_writes' = Append(c_writes, p)
    /\ UNCHANGED <<c_max, c_store, c_disk, c_clock, c_prev, c_deltas, c_last,
                   c_instructions, c_optimize, c_insights, nonCurVars>>

\* the executions the two processes curate and the feedback they optimize
SharedRuns == {RichRun, PoorRun}

SharedFeedbacks == { <<"too short", "insufficient search results">> }

SharedNext ==
    \/ \E p \in Processes, ex \in SharedRuns, ok \in BOOLEAN :
          SharedCurate(p, Reflect(ex.context, ex.response), ok)
    \/ \E p \in Processes, fb \in SharedFeedbacks, ok \in BOOLEAN :
          SharedOptimize(p, fb, ok)
    \/ \E p \in Processes : SharedWrite(p)

\* no call is in flight, the file has been written, and no process holds
\* items whose save failed
BothFinished ==
    /\ c_writes # <<>>
    /\ \A p \in Processes : c_procs[p].pc = "idle" /\ c_procs[p].saved

LastWriter == c_writes[Len(c_writes)]

\* C36: when two curators that each loaded the store file run curate() and
\* optimize() in any interleaving, the file after both have finished holds
\* the complete in-memory store of the one that wrote last; items of the
\* other may be missing, and the file is never a mixture of the two stores.
C36_LastWriteWins ==
    BothFinished => c_file = TextOf(c_procs[LastWriter].store)

(***************************************************************************)
(* Specifications: one per component, the other components left idle       *)
(***************************************************************************)
\* the curator of the service: ACEAgent()
CurIdle == CurInit(DefaultMaxContextItems)

InitOrch == OrchInit /\ ChkIdle /\ CurIdle /\ RunIdle

SpecOrch == InitOrch /\ [][OrchNext]_vars

\* an orchestrator whose steps may write into the context they are given
InitSharing ==
    /\ ChkIdle /\ CurIdle /\ RunIdle
    /\ \E agents \in SeqsUpTo(SharingInfos, MaxSteps) : Registered(agents, EmptyDict)

SpecSharing == InitSharing /\ [][OrchNext]_vars

InitChk == OrchIdle /\ ChkIdle /\ CurIdle /\ RunIdle

SpecChk == InitChk /\ [][ChkNext]_vars

SpecRepeat == InitChk /\ [][RepeatNext]_vars

\* a caller that grades responses and optimizes on a failing verdict
InitActionable ==
    /\ OrchIdle /\ CurIdle /\ RunIdle
    /\ k_rules \in ActionableConfigs
    /\ k_response = NoResponse
    /\ k_intermediate = NoIntermediate
    /\ k_verdict = NoVerdict
    /\ k_first = NoFirst

SpecActionable == InitActionable /\ [][ActionableNext]_vars

InitCur == OrchIdle /\ ChkIdle /\ RunIdle /\ \E max \in 0..MaxCap : CurInit(max)

SpecCur == InitCur /\ [][CurNext]_vars

\* the service and the runtime entrypoint, each with a curator constructed
\* over the same store file
InitShared ==
    /\ OrchIdle /\ ChkIdle /\ RunIdle
    /\ c_max = DefaultMaxContextItems
    /\ c_store = <<>>
    /\ c_disk = <<>>
    /\ c_clock = 0
    /\ c_prev = <<>>
    /\ c_deltas = <<>>
    /\ c_last = "init"
    /\ c_instructions = NoInstructions
    /\ c_optimize = NoOptimize
    /\ c_insights = NoInsights
    /\ \E store \in SharedStores :
          /\ c_file = TextOf(store)
          /\ c_procs = [p \in Processes |-> ProcOf(store, "idle", TRUE, 0)]
    /\ c_writes = <<>>

SpecShared == InitShared /\ [][SharedNext]_vars

\* stores a curator can hold: patterns, then optimization attempts, then
\* strategies, then optimization attempts again
MaxPatterns == 11

MaxStrategies == 6

GapSizes == {0, StrategyLimit, PatternWindow}

Layout(p, gap, st, tail) ==
       [k \in 1..p |-> ItemOf("successful_pattern", k, "role_based_context", 16, 0,
                              <<>>, <<>>)]
    \o [k \in 1..gap |-> ItemOf("optimization_attempt", p + k, "", 0, 1,
                                <<"department missing">>, <<"person_selection">>)]
    \o [k \in 1..st |-> ItemOf("improvement_strategy", p + gap + k,
                               "Integrate tacit knowledge", 0, 0, <<>>, <<>>)]
    \o [k \in 1..tail |-> ItemOf("optimization_attempt", p + gap + st + k, "", 0, 1,
                                 <<"department missing">>, <<"person_selection">>)]

StoreFamily ==
    { Layout(p, gap, st, tail) :
        p \in 0..MaxPatterns, gap \in GapSizes, st \in 0..MaxStrategies, tail \in GapSizes }

\* the curator of the service over a store file written by earlier runs
InitInstr ==
    /\ OrchIdle /\ ChkIdle /\ RunIdle
    /\ ShareIdle
    /\ c_max = DefaultMaxContextItems
    /\ c_store \in { st \in StoreFamily : Len(st) <= DefaultMaxContextItems }
    /\ c_disk = c_store
    /\ c_clock = Len(c_store)
    /\ c_prev = <<>>
    /\ c_deltas = <<>>
    /\ c_last = "init"
    /\ c_instructions = NoInstructions
    /\ c_optimize = NoOptimize
    /\ c_insights = NoInsights

SpecInstr == InitInstr /\ [][InstructionsCall]_vars

\* a bus of any capacity and its direct callers
InitBus ==
    /\ OrchIdle /\ ChkIdle /\ CurIdle
    /\ MonInit(DefaultMaxMetrics) /\ StoreInit /\ LoopInit("run_agents")
    /\ \E max_history \in 0..MaxBusCap : BusInit(max_history)

SpecBus == InitBus /\ [][BusNext]_vars

\* the state store and its direct callers
InitStore == OrchIdle /\ ChkIdle /\ CurIdle /\ RunIdle

SpecStore == InitStore /\ [][StoreNext]_vars

\* a monitor and its direct callers
InitMon ==
    /\ OrchIdle /\ ChkIdle /\ CurIdle
    /\ BusInit(DefaultMaxHistory) /\ StoreInit /\ LoopInit("run_agents")
    /\ \E max_metrics \in 0..MaxMonCap : MonInit(max_metrics)

SpecMon == InitMon /\ [][MonNext]_vars

\* a monitor of the service after n record_execution calls for one step
InitStats ==
    /\ OrchIdle /\ ChkIdle /\ CurIdle
    /\ BusInit(DefaultMaxHistory) /\ StoreInit /\ LoopInit("run_agents")
    /\ m_max_metrics = DefaultMaxMetrics
    /\ \E shape \in Shapes, n \in 1..MaxWindow :
          m_metrics = [a \in MonitoredAgents |->
                          IF a = "info_finder" THEN Buffer(shape, n) ELSE <<>>]
    /\ m_errors = <<>>
    /\ m_recorded = <<>>
    /\ m_raised = <<>>
    /\ m_call = NoMonCall

SpecStats == InitStats /\ [][GetStatisticsCall]_vars

\* the service (run_agents) or the runtime entrypoint (invoke): one process,
\* its requests served one after another
Init == OrchIdle /\ ChkIdle /\ CurIdle /\ \E variant \in Variants : RunInit(variant)

Spec == Init /\ [][Next]_vars

InitSessions == OrchIdle /\ ChkIdle /\ CurIdle /\ RunIdle

\* the service serving the end-to-end scenario
SpecScenario == Init /\ [][NextScenario]_vars

\* the service serving two sessions, and a client that clears a session
SpecSessions == InitSessions /\ [][NextSessions]_vars

\* every call a started run waits for returns or raises, and the
\* interpreter goes on to the next statement
SpecLive == Init /\ [][Next]_vars /\ WF_vars(RunStep)

====
